---- MODULE Spec2Model ----
(***************************************************************************)
(* Model of composer-drupal-update: the version parser / comparator, the   *)
(* canonical pin, branch selection, major-line selection and the final     *)
(* ordering of a release fetch.                                            *)
(*                                                                         *)
(* Strings are sequences of one-character strings, so that prefix tests,   *)
(* substring search, splitting and integer parsing are computed the way    *)
(* the Go code computes them.                                              *)
(*                                                                         *)
(* The source tree holds several revisions of the same functions.  Each is *)
(* modelled under its own name:                                            *)
(*   ParseVersion        the regular-expression parser (unnamed/part_003)  *)
(*   ParseVersionSplit   the string-splitting parser   (version.go)        *)
(*   VersionPin          the string-level pin          (drupalupdate.go)   *)
(*   LatestPerBranch / latestPerBranch, SortReleasesDescending /           *)
(*   sortReleases        the two revisions of the fetch pipeline           *)
(***************************************************************************)
EXTENDS Integers, Sequences, FiniteSets, TLC

(***************************************************************************)
(* Characters                                                              *)
(***************************************************************************)
Digits == <<"0", "1", "2", "3", "4", "5", "6", "7", "8", "9">>

LowerLetters == <<"a", "b", "c", "d", "e", "f", "g", "h", "i", "j", "k", "l", "m", "n", "o", "p", "q", "r", "s", "t", "u", "v", "w", "x", "y", "z">>

UpperLetters == <<"A", "B", "C", "D", "E", "F", "G", "H", "I", "J", "K", "L", "M", "N", "O", "P", "Q", "R", "S", "T", "U", "V", "W", "X", "Y", "Z">>

Range(f) == {f[i] : i \in DOMAIN f}

IsDigit(ch) == ch \in Range(Digits)

DigitVal(ch) == (CHOOSE i \in 1..10 : Digits[i] = ch) - 1

\* unicode.ToLower restricted to ASCII
ToLowerCh(ch) ==
    IF ch \in Range(UpperLetters)
    THEN LowerLetters[CHOOSE i \in 1..26 : UpperLetters[i] = ch]
    ELSE ch

\* the character class [aA-zZ] of versionRegex: the letter a, the range from
\* upper-case A to lower-case z, and the letter Z.  The range also holds the
\* characters between Z and a in ASCII; the backslash and the backquote are
\* left out of the model alphabet.
IsRegexLetter(ch) ==
    ch \in Range(LowerLetters) \cup Range(UpperLetters) \cup {"[", "]", "^", "_"}

(***************************************************************************)
(* Go strings package                                                      *)
(***************************************************************************)
HasPrefix(s, p) == Len(p) <= Len(s) /\ SubSeq(s, 1, Len(p)) = p

TrimPrefix(s, p) == IF HasPrefix(s, p) THEN SubSeq(s, Len(p) + 1, Len(s)) ELSE s

ToLower(s) == [i \in 1..Len(s) |-> ToLowerCh(s[i])]

\* strings.Index: 0-based offset of the first occurrence of sub, or -1
Index(s, sub) ==
    LET hits == {i \in 0..(Len(s) - Len(sub)) : SubSeq(s, i + 1, i + Len(sub)) = sub}
    IN  IF hits = {} THEN -1 ELSE CHOOSE i \in hits : \A j \in hits : i <= j

Contains(s, sub) == Index(s, sub) # -1

\* strings.EqualFold on ASCII
EqualFold(a, b) == ToLower(a) = ToLower(b)

\* strings.SplitN(s, sep, n) for a one-character separator and n > 0
RECURSIVE SplitN(_, _, _)
SplitN(s, sep, n) ==
    LET idx == Index(s, <<sep>>)
    IN  IF n <= 1 \/ idx = -1
        THEN <<s>>
        ELSE <<SubSeq(s, 1, idx)>> \o SplitN(SubSeq(s, idx + 2, Len(s)), sep, n - 1)

\* strings.Split(s, sep): no limit on the number of parts
Split(s, sep) == SplitN(s, sep, Len(s) + 1)

\* strings.TrimSpace for the space character
RECURSIVE TrimSpace(_)
TrimSpace(s) ==
    IF s = <<>> THEN s
    ELSE IF Head(s) = " " THEN TrimSpace(Tail(s))
    ELSE IF s[Len(s)] = " " THEN TrimSpace(SubSeq(s, 1, Len(s) - 1))
    ELSE s

\* strconv.Itoa
RECURSIVE ItoaNat(_)
ItoaNat(n) == IF n < 10 THEN <<Digits[n + 1]>> ELSE ItoaNat(n \div 10) \o <<Digits[(n % 10) + 1]>>

Itoa(n) == IF n < 0 THEN <<"-">> \o ItoaNat(0 - n) ELSE ItoaNat(n)

\* the length of the longest prefix of s whose characters all satisfy a class
RECURSIVE DigitRun(_)
DigitRun(s) == IF s # <<>> /\ IsDigit(Head(s)) THEN 1 + DigitRun(Tail(s)) ELSE 0

RECURSIVE LetterRun(_)
LetterRun(s) == IF s # <<>> /\ IsRegexLetter(Head(s)) THEN 1 + LetterRun(Tail(s)) ELSE 0

Drop(s, n) == SubSeq(s, n + 1, Len(s))

Take(s, n) == SubSeq(s, 1, n)

(***************************************************************************)
(* Version: parsing, pin rendering, comparison                             *)
(***************************************************************************)
\* parseLeadingInt of version.go: the leading integer of s, 0 when s does
\* not start with a digit
RECURSIVE parseLeadingIntFrom(_, _)
parseLeadingIntFrom(s, n) ==
    IF s = <<>> \/ ~IsDigit(Head(s)) THEN n
    ELSE parseLeadingIntFrom(Tail(s), n * 10 + DigitVal(Head(s)))

parseLeadingInt(s) == parseLeadingIntFrom(s, 0)

\* the second result of parseLeadingInt of drupalupdate.go: a digit was found
parseLeadingIntFound(s) == s # <<>> /\ IsDigit(Head(s))

\* Version{} with the segments defaulted to -1
NoVersion == [Prefix |-> <<>>, Stability |-> <<>>, Major |-> -1, Minor |-> -1, Patch |-> -1]

stabilityPrefixes == << <<"R", "C">>, <<"b", "e", "t", "a">>, <<"a", "l", "p", "h", "a">> >>

\* parseStability: the canonical marker that s equals ignoring case, else ""
parseStability(s) ==
    LET hits == {i \in 1..Len(stabilityPrefixes) : EqualFold(s, stabilityPrefixes[i])}
    IN  IF hits = {} THEN <<>>
        ELSE stabilityPrefixes[CHOOSE i \in hits : \A j \in hits : i <= j]

\* ((\d+\.x)-)? : the length of the match of the optional prefix group at
\* the start of s, 0 when it does not match
regexPrefixLen(s) ==
    LET d == DigitRun(s)
    IN  IF d > 0 /\ Len(s) >= d + 3 /\ SubSeq(s, d + 1, d + 3) = <<".", "x", "-">>
        THEN d + 3 ELSE 0

\* \.\d+ : the length of one dotted segment at the start of s, 0 when none
regexDotSegLen(s) ==
    IF s # <<>> /\ Head(s) = "." /\ DigitRun(Tail(s)) > 0 THEN 1 + DigitRun(Tail(s)) ELSE 0

\* (\d+)(\.\d+){0,2} : the length of the numeric core at the start of s,
\* 0 when s does not start with a digit
regexCoreLen(s) ==
    LET d  == DigitRun(s)
        s1 == regexDotSegLen(Drop(s, d))
        s2 == IF s1 = 0 THEN 0 ELSE regexDotSegLen(Drop(s, d + s1))
    IN  IF d = 0 THEN 0 ELSE d + s1 + s2

\* (-([aA-zZ]+).*)?$ : whether the rest of the string matches
regexTailOk(s) == s = <<>> \/ (Head(s) = "-" /\ LetterRun(Tail(s)) > 0)

\* versionRegex.FindAllStringSubmatch(s, 1): the groups 2, 3 and 7 of the
\* match, or ok = FALSE
versionRegex(s) ==
    LET p    == regexPrefixLen(s)
        body == Drop(s, p)
        c    == regexCoreLen(body)
        tl   == Drop(body, c)
        c0   == regexCoreLen(s)
        tl0  == Drop(s, c0)
    IN  IF p > 0 /\ c > 0 /\ regexTailOk(tl)
        THEN [ok |-> TRUE, g2 |-> Take(s, p - 1), g3 |-> Take(body, c),
              g7 |-> IF tl = <<>> THEN <<>> ELSE Take(Tail(tl), LetterRun(Tail(tl)))]
        ELSE IF c0 > 0 /\ regexTailOk(tl0)
        THEN [ok |-> TRUE, g2 |-> <<>>, g3 |-> Take(s, c0),
              g7 |-> IF tl0 = <<>> THEN <<>> ELSE Take(Tail(tl0), LetterRun(Tail(tl0)))]
        ELSE [ok |-> FALSE, g2 |-> <<>>, g3 |-> <<>>, g7 |-> <<>>]

\* ParseVersion, regular-expression revision
ParseVersion(s) ==
    LET m      == versionRegex(s)
        digits == SplitN(m.g3, ".", 3)
    IN  IF ~m.ok THEN NoVersion
        ELSE [Prefix    |-> m.g2,
              Stability |-> parseStability(m.g7),
              Major     |-> IF Len(digits) > 0 THEN parseLeadingInt(digits[1]) ELSE -1,
              Minor     |-> IF Len(digits) > 1 THEN parseLeadingInt(digits[2]) ELSE -1,
              Patch     |-> IF Len(digits) > 2 THEN parseLeadingInt(digits[3]) ELSE -1]

Prefix8x == <<"8", ".", "x", "-">>

\* the stability suffix scan shared by ParseVersion of version.go and
\* VersionPin of drupalupdate.go: the offset of the marker and its token
stabilityScan(rest) ==
    LET lower == ToLower(rest)
        rc    == Index(lower, <<"-", "r", "c">>)
        beta  == Index(lower, <<"-", "b", "e", "t", "a">>)
        alpha == Index(lower, <<"-", "a", "l", "p", "h", "a">>)
    IN  IF rc # -1 THEN [idx |-> rc, stab |-> <<"R", "C">>]
        ELSE IF beta # -1 THEN [idx |-> beta, stab |-> <<"b", "e", "t", "a">>]
        ELSE IF alpha # -1 THEN [idx |-> alpha, stab |-> <<"a", "l", "p", "h", "a">>]
        ELSE [idx |-> -1, stab |-> <<>>]

\* ParseVersion, string-splitting revision
ParseVersionSplit(s) ==
    LET has8  == HasPrefix(s, Prefix8x)
        r0    == IF has8 THEN TrimPrefix(s, Prefix8x) ELSE s
        scan  == stabilityScan(r0)
        rest  == IF scan.idx # -1 THEN Take(r0, scan.idx) ELSE r0
        parts == SplitN(rest, ".", 4)
    IN  [Prefix    |-> IF has8 THEN <<"8", ".", "x">> ELSE <<>>,
         Stability |-> scan.stab,
         Major     |-> IF Len(parts) >= 1 THEN parseLeadingInt(parts[1]) ELSE -1,
         Minor     |-> IF Len(parts) >= 2 THEN parseLeadingInt(parts[2]) ELSE -1,
         Patch     |-> IF Len(parts) >= 3 THEN parseLeadingInt(parts[3]) ELSE -1]

\* a rendering that takes the patch segment for the minor segment
VersionPinOfPatch(v) ==
    LET num == IF v.Patch >= 0
               THEN Itoa(v.Major) \o <<".">> \o Itoa(v.Patch)
               ELSE Itoa(v.Major)
    IN  <<"^">> \o num \o (IF v.Stability # <<>> THEN <<"@">> \o v.Stability ELSE <<>>)

\* Version.VersionPin
VersionVersionPin(v) ==
    LET num == IF v.Minor >= 0
               THEN Itoa(v.Major) \o <<".">> \o Itoa(v.Minor)
               ELSE Itoa(v.Major)
    IN  <<"^">> \o num \o (IF v.Stability # <<>> THEN <<"@">> \o v.Stability ELSE <<>>)

\* VersionPin of drupalupdate.go: the pin computed on the raw string
VersionPin(version) ==
    LET v0    == IF HasPrefix(version, Prefix8x) THEN TrimPrefix(version, Prefix8x) ELSE version
        scan  == stabilityScan(v0)
        v     == IF scan.idx # -1 THEN Take(v0, scan.idx) ELSE v0
        stab  == IF scan.idx # -1 THEN <<"@">> \o scan.stab ELSE <<>>
        parts == SplitN(v, ".", 3)
    IN  IF Len(parts) >= 2
        THEN <<"^">> \o parts[1] \o <<".">> \o parts[2] \o stab
        ELSE <<"^">> \o v \o stab

\* a segment reading that keeps the absent sentinel
segAbsentKept(n) == n

\* seg of Version.Compare: an absent segment counts as 0
seg(n) == IF n < 0 THEN 0 ELSE n

\* Version.Compare
Compare(v, other) ==
    IF seg(v.Major) # seg(other.Major) THEN seg(v.Major) - seg(other.Major)
    ELSE IF seg(v.Minor) # seg(other.Minor) THEN seg(v.Minor) - seg(other.Minor)
    ELSE seg(v.Patch) - seg(other.Patch)

(***************************************************************************)
(* State                                                                   *)
(***************************************************************************)
VARIABLES
    pc,        \* the step the run has reached
    impl,      \* which revision of the code the run exercises
    raw,       \* the raw version string handed to the parser
    shape,     \* how raw was put together (NoShape for a free-form string)
    ver,       \* ParseVersion(raw)
    pin,       \* the pin rendered for raw
    pin2,      \* the pin rendered from re-parsing pin
    raw2,      \* the second version string of a comparison
    ver2,      \* ParseVersion(raw2)
    cmp,       \* ver.Compare(ver2)
    cmpBack,   \* ver2.Compare(ver)
    registry,  \* the registry the fetch queries: "drupal" or "packagist"
    httpOK,    \* the registry answers with status 200 and a well-formed body
    supported, \* ReleaseHistory.SupportedBranches of the CMS registry's answer
    releases,  \* ReleaseHistory.Releases of the CMS registry's answer
    versions,  \* the version entries of the general registry's answer
    branches,  \* the declared branch prefixes parsed from supported
    selected,  \* the releases picked by branch or major-line selection
    result,    \* the release list the fetch returns
    err,       \* the fetch returned an error
    require,      \* ComposerJSON.Require: the dependency map, name to constraint
    listed,       \* which of the three package lists have been computed
    corePkgs,     \* the list CorePackages returned
    drupalPkgs,   \* the list DrupalPackages returned
    composerPkgs, \* the list ComposerPackages returned
    manifest,     \* the input document: its top-level fields in document order
    updates,      \* the version map of an update request, name to version
    cjRaw,        \* ComposerJSON.Raw: the field bag of the decoded manifest
    cjRequire,    \* ComposerJSON.Require of the decoded manifest (may be nil)
    output,       \* the encoded document: its top-level fields in output order
    pkgName,      \* the package name handed to Client.FetchReleases
    requests,     \* the HTTP requests the client has issued, in order
    fetchErr,     \* the error of checkPackageName the fetch wrapped, or NoError
    loadPkgs,     \* the packages whose releases are loaded, in list order
    answers,      \* what the fetch of each package is answered with
    settled,      \* the packages whose fetch has returned to its caller
    pkgReleases,  \* the releases kept for each package
    reqDoc,       \* the composer_json member of a request body
    httpStatus,   \* the HTTP status of the response, 0 before the response
    rawIsNil,     \* ComposerJSON.Raw is the nil map
    outcome,      \* how a call of MarshalJSON ended: "none" before the call
    stdin,        \* the lines of standard input the command line has not read
    consumed,     \* the lines the running prompt has read
    shown,        \* the package name and current version the prompt shows
    offered,      \* the pins of the releases the prompt lists
    newVersion,   \* what selectVersion returned
    composerMap,  \* composer.Require of the command line
    section,      \* the section main is in: "core", "drupal" or "composer"
    queue,        \* the packages of the section main has not handled
    changed,      \* the changed flag of main
    written,      \* main has rewritten the manifest file
    prompted,     \* the prompts that returned: package, current version, result
    editing,      \* the textarea is editable
    dropDisabled, \* the drop zone carries the class disabled
    textarea,     \* the manifest in the textarea, or NoText
    reading,      \* the files a FileReader is reading
    updating,     \* the update requests that are not answered
    stateOwner,   \* the load whose objects the package state holds, 0 for none
    heap,         \* the release lists of the objects each load made
    dom,          \* the rows of the packages table
    latestButton, \* the table shows the button Set all to latest
    tabDirty,     \* the Packages tab shows the marker (*)
    applyDisabled,  \* btnApply.disabled
    revertDisabled, \* btnRevert.disabled
    loads,        \* the calls of loadComposer: phase, manifest, open fetches, and
                  \* the calls that waited for an answer when they were made
    lastEvent     \* the kind of the last event the page handled

versionVars == <<impl, raw, shape, ver, pin, pin2, raw2, ver2, cmp, cmpBack>>

fetchVars == <<registry, httpOK, supported, releases, versions, branches, selected, result, err>>

packageVars == <<require, listed, corePkgs, drupalPkgs, composerPkgs>>

\* the variables of the manifest, the server and the command line
manifestVars == <<manifest, updates, cjRaw, cjRequire, output>>

\* the variables of a fetch by package name
clientVars == <<pkgName, requests, fetchErr>>

\* the variables of a load of several packages
loadVars == <<loadPkgs, answers, settled, pkgReleases>>

\* the variables of a request to the server
serverVars == <<reqDoc, httpStatus, rawIsNil, outcome>>

\* the variables of the server, the user interface and the command line
\* the variables of a run of the command line
cliVars == <<stdin, consumed, shown, offered, newVersion, composerMap, section, queue,
             changed, written, prompted>>

\* the variables of the user interface and the command line
\* the variables of the page
uiVars == <<editing, dropDisabled, textarea, reading, updating, stateOwner, heap, dom,
            latestButton, tabDirty, applyDisabled, revertDisabled, loads, lastEvent>>

frontVars == <<cliVars, uiVars>>

laterVars == <<serverVars, frontVars>>

otherVars == <<packageVars, manifestVars, clientVars, loadVars, laterVars>>

vars == <<pc, versionVars, fetchVars, otherVars>>

\* the empty map
EmptyMap == [x \in {} |-> x]

\* no package list has been asked for
PackagesIdle ==
    /\ require = EmptyMap
    /\ listed = {}
    /\ corePkgs = <<>>
    /\ drupalPkgs = <<>>
    /\ composerPkgs = <<>>

\* a map[string]string that is nil
NilRequire == [isNil |-> TRUE, entries |-> EmptyMap]

\* no manifest is decoded or encoded
ManifestIdle ==
    /\ manifest = <<>>
    /\ updates = EmptyMap
    /\ cjRaw = EmptyMap
    /\ cjRequire = NilRequire
    /\ output = <<>>

\* no fetch by package name is made
ClientIdle ==
    /\ pkgName = <<>>
    /\ requests = <<>>
    /\ fetchErr = <<>>

\* no load of several packages is made
LoadIdle ==
    /\ loadPkgs = <<>>
    /\ answers = EmptyMap
    /\ settled = {}
    /\ pkgReleases = EmptyMap

\* no request is made to the server
ServerIdle ==
    /\ reqDoc = [kind |-> "object", fields |-> <<>>]
    /\ httpStatus = 0
    /\ rawIsNil = TRUE
    /\ outcome = "none"

\* the command line is not run
CliIdle ==
    /\ stdin = <<>>
    /\ consumed = <<>>
    /\ shown = [name |-> <<>>, version |-> <<>>]
    /\ offered = <<>>
    /\ newVersion = <<>>
    /\ composerMap = EmptyMap
    /\ section = "none"
    /\ queue = <<>>
    /\ changed = FALSE
    /\ written = FALSE
    /\ prompted = <<>>

\* the page is not opened
UiIdle ==
    /\ editing = FALSE
    /\ dropDisabled = FALSE
    /\ textarea = EmptyMap
    /\ reading = {}
    /\ updating = {}
    /\ stateOwner = 0
    /\ heap = EmptyMap
    /\ dom = EmptyMap
    /\ latestButton = FALSE
    /\ tabDirty = FALSE
    /\ applyDisabled = TRUE
    /\ revertDisabled = TRUE
    /\ loads = EmptyMap
    /\ lastEvent = "none"

FrontIdle == CliIdle /\ UiIdle

LaterIdle == ServerIdle /\ FrontIdle

OtherIdle == PackagesIdle /\ ManifestIdle /\ ClientIdle /\ LoadIdle /\ LaterIdle

NoShape == [n |-> <<>>, segs |-> <<>>, text |-> <<>>, canon |-> <<>>, form |-> FALSE]

(***************************************************************************)
(* Inputs                                                                  *)
(***************************************************************************)
\* the largest number of dot-separated numeric segments of a generated version
MaxSegs == 4

\* the largest length of a free-form string over Alphabet
MaxLen == 3

\* the digit strings N of a legacy prefix "N.x-" (<<>>: no prefix)
LegacyNs == {<<>>, <<"8">>, <<"1", "2">>}

\* the values of the numeric segments
SegNums == {0, 1, 16}

\* suffixes that carry a stability marker: the text, and the canonical token
\* of the marker it holds
MarkerSuffixes ==
    { [text |-> <<"-", "r", "c", "1", "7">>,   canon |-> <<"R", "C">>],
      [text |-> <<"-", "R", "C", "3">>,    canon |-> <<"R", "C">>],
      [text |-> <<"-", "b", "e", "t", "a", "3">>,  canon |-> <<"b", "e", "t", "a">>],
      [text |-> <<"-", "A", "l", "p", "h", "a">>,  canon |-> <<"a", "l", "p", "h", "a">>],
      [text |-> <<"-", "a", "l", "p", "h", "a", "1">>, canon |-> <<"a", "l", "p", "h", "a">>],
      [text |-> <<"-", "r", "c", "x">>,    canon |-> <<"R", "C">>],
      [text |-> <<"-", "b", "e", "t", "a", "_", "1">>, canon |-> <<"b", "e", "t", "a">>] }

Suffixes == {[text |-> <<>>, canon |-> <<>>]} \cup MarkerSuffixes

RECURSIVE SeqsUpTo(_, _)
SeqsUpTo(S, n) ==
    IF n = 0 THEN {<<>>}
    ELSE LET shorter == SeqsUpTo(S, n - 1)
         IN  shorter \cup {Append(q, x) : q \in {r \in shorter : Len(r) = n - 1}, x \in S}

\* the dotted rendering of a list of numbers
RECURSIVE Dotted(_)
Dotted(segs) ==
    IF segs = <<>> THEN <<>>
    ELSE IF Len(segs) = 1 THEN Itoa(segs[1])
    ELSE Itoa(Head(segs)) \o <<".">> \o Dotted(Tail(segs))

LegacyPrefix(n) == IF n = <<>> THEN <<>> ELSE n \o <<".", "x", "-">>

\* the structured version strings: [N.x-]seg(.seg)*[suffix]; form says that
\* the string is of the shape [N.x-]major[.minor[.patch]][-marker...]
Shapes ==
    { [n |-> n, segs |-> segs, text |-> sfx.text, canon |-> sfx.canon, form |-> Len(segs) <= 3] :
        n \in LegacyNs, segs \in SeqsUpTo(SegNums, MaxSegs) \ {<<>>}, sfx \in Suffixes }

ShapeString(sh) == LegacyPrefix(sh.n) \o Dotted(sh.segs) \o sh.text

\* strings that the catalogs, the manifest or a caller can hand to the parser
\* and that are not of the structured shape
OddStrings ==
    { <<"1", "6", "a", "b", "c">>, <<"2", ".", "x", "-", "d", "e", "v">>, <<"2", ".", "0", ".", "x", "-", "d", "e", "v">>, <<"8", ".", "x", "-", "1", ".", "x", "-", "d", "e", "v">>, <<"d", "e", "v", "-", "m", "a", "i", "n">>,
      <<"v", "2", ".", "1", ".", "0">>, <<"1", ".", "0", ".", "0", "-", "r", "c", ".", "1">>, <<"1", ".", "0", "-", "d", "e", "v", "-", "r", "c", "1">>, <<"8", ".", "x", "-", "r", "c", "1">>, <<"x", ".", "1">> }

Alphabet == {"1", ".", "-", "x", "^", "@"}

FreeStrings == SeqsUpTo(Alphabet, MaxLen)

\* the fetch pipeline is not exercised
FetchIdle ==
    /\ registry = "none"
    /\ httpOK = FALSE
    /\ supported = <<>>
    /\ releases = <<>>
    /\ versions = <<>>
    /\ branches = <<>>
    /\ selected = <<>>
    /\ result = <<>>
    /\ err = FALSE

(***************************************************************************)
(* Parsing one version string and rendering its pin                        *)
(***************************************************************************)
Impls == {"regex", "split", "string"}

\* the parser of the revision under test
ParseBy(i, s) == IF i = "regex" THEN ParseVersion(s) ELSE ParseVersionSplit(s)

InitVersion ==
    /\ pc = "start"
    /\ impl \in Impls
    /\ \/ \E sh \in Shapes : shape = sh /\ raw = ShapeString(sh)
       \/ \E s \in OddStrings \cup FreeStrings : shape = NoShape /\ raw = s
    /\ ver = NoVersion
    /\ pin = <<>>
    /\ pin2 = <<>>
    /\ raw2 = <<>>
    /\ ver2 = NoVersion
    /\ cmp = 0
    /\ cmpBack = 0
    /\ FetchIdle
    /\ OtherIdle

\* v := ParseVersion(raw)
ParseVersionStep ==
    /\ pc = "start"
    /\ impl \in {"regex", "split"}
    /\ ver' = ParseBy(impl, raw)
    /\ pc' = "parsed"
    /\ UNCHANGED <<impl, raw, shape, pin, pin2, raw2, ver2, cmp, cmpBack, fetchVars, otherVars>>

\* v.VersionPin()
VersionPinStep ==
    /\ pc = "parsed"
    /\ pin' = VersionVersionPin(ver)
    /\ pc' = "pinned"
    /\ UNCHANGED <<impl, raw, shape, ver, pin2, raw2, ver2, cmp, cmpBack, fetchVars, otherVars>>

\* VersionPin(raw) of the revision that renders the pin from the raw string
VersionPinStringStep ==
    /\ pc = "start"
    /\ impl = "string"
    /\ pin' = VersionPin(raw)
    /\ pc' = "pinned"
    /\ UNCHANGED <<impl, raw, shape, ver, pin2, raw2, ver2, cmp, cmpBack, fetchVars, otherVars>>

\* ParseVersion(pin).VersionPin(): the pin is parsed as if it were a version
RepinStep ==
    /\ pc = "pinned"
    /\ impl \in {"regex", "split"}
    /\ raw2' = pin
    /\ ver2' = ParseBy(impl, pin)
    /\ pin2' = VersionVersionPin(ParseBy(impl, pin))
    /\ pc' = "repinned"
    /\ UNCHANGED <<impl, raw, shape, ver, pin, cmp, cmpBack, fetchVars, otherVars>>

NextVersion == ParseVersionStep \/ VersionPinStep \/ VersionPinStringStep \/ RepinStep

SpecVersion == InitVersion /\ [][NextVersion]_vars

(***************************************************************************)
(* Claims about parsing and pinning (checked under SpecVersion)            *)
(***************************************************************************)
\* the pin the canonical rendering prescribes for a structured version string:
\* ^major, or ^major.minor when a minor segment is present, then @marker
ExpectedPin(sh) ==
    <<"^">> \o Itoa(sh.segs[1])
            \o (IF Len(sh.segs) >= 2 THEN <<".">> \o Itoa(sh.segs[2]) ELSE <<>>)
            \o (IF sh.canon # <<>> THEN <<"@">> \o sh.canon ELSE <<>>)

\* C4: for every raw version string of the form
\* [N.x-]major[.minor[.patch]][-marker...], with marker one of rc, beta, alpha
\* in any letter case, the pin is ^major or ^major.minor, never holds the
\* patch, and ends with @RC, @beta or @alpha exactly when the marker is there.
C4_PinOfWellFormedVersion ==
    (pc \in {"pinned", "repinned"} /\ shape.form) => pin = ExpectedPin(shape)

\* C5: pinning is idempotent under re-parsing: the pin of the parsed pin is
\* the pin.
C5_PinIdempotentUnderReparse ==
    pc = "repinned" => pin2 = pin

\* a pin written back in the syntax of a version: the caret is dropped and
\* the @ of the stability flag becomes the hyphen of a stability suffix
AsVersion(p) ==
    LET body == IF p # <<>> /\ Head(p) = "^" THEN Tail(p) ELSE p
    IN  [i \in 1..Len(body) |-> IF body[i] = "@" THEN "-" ELSE body[i]]

\* C5 as amended: the pin, written back as a version string (caret dropped,
\* @ replaced by -), parses and pins to the same pin.
C5_PinIdempotentAsVersion ==
    (pc = "repinned" /\ impl # "string") =>
        VersionVersionPin(ParseBy(impl, AsVersion(pin))) = pin

\* a version with a patch segment and a stability marker was pinned, and the
\* pin was parsed and pinned again
C5_Witness ==
    /\ pc = "repinned"
    /\ impl # "string"
    /\ shape.form
    /\ ver.Patch >= 0
    /\ ver.Stability # <<>>
    /\ pin = ExpectedPin(shape)

\* C6: for every non-empty string that starts with a digit the parsed major
\* is never negative.
C6_MajorNeverNegative ==
    (pc = "parsed" /\ raw # <<>> /\ IsDigit(raw[1])) => ver.Major >= 0

\* the numeric segments and the stability of a parsed version
Numbers(v) == <<v.Major, v.Minor, v.Patch>>

\* C7: for every digit string N and every version string w without a legacy
\* prefix, parsing N.x-w records the prefix N.x and yields the major, minor,
\* patch and stability of parsing w.
C7_LegacyPrefixStripped ==
    (pc = "parsed" /\ shape # NoShape /\ shape.n # <<>>) =>
        LET w == Dotted(shape.segs) \o shape.text
        IN  /\ ver.Prefix = shape.n \o <<".", "x">>
            /\ Numbers(ver) = Numbers(ParseBy(impl, w))
            /\ ver.Stability = ParseBy(impl, w).Stability

\* the offset of the first hyphen that is followed by the marker m, or -1
MarkerAt(s, m) == Index(ToLower(s), <<"-">> \o ToLower(m))

\* the canonical markers that occur in s after a hyphen
MarkersIn(s) == {i \in 1..Len(stabilityPrefixes) : MarkerAt(s, stabilityPrefixes[i]) # -1}

\* C8: a version string that holds -rc, -beta or -alpha (in any letter case)
\* is parsed with the stability RC, beta or alpha, and its numbers come from
\* the text before the marker; a string without a marker has no stability.
C8_StabilityMarkerRecorded ==
    pc = "parsed" =>
        /\ MarkersIn(raw) = {} => ver.Stability = <<>>
        /\ \A i \in 1..Len(stabilityPrefixes) :
              MarkersIn(raw) = {i} =>
                  /\ ver.Stability = stabilityPrefixes[i]
                  /\ Numbers(ver) = Numbers(ParseBy(impl, Take(raw, MarkerAt(raw, stabilityPrefixes[i]))))

(***************************************************************************)
(* Comparing two parsed versions                                           *)
(***************************************************************************)
\* the largest number of numeric segments of the strings that are compared
MaxCmpSegs == 3

\* the version strings that are compared pairwise: with and without legacy
\* prefix, with one to MaxCmpSegs segments, with and without stability
\* marker, and some that do not parse
CmpStrings ==
    { LegacyPrefix(n) \o Dotted(segs) \o sfx :
        n \in {<<>>, <<"8">>},
        segs \in SeqsUpTo(SegNums, MaxCmpSegs) \ {<<>>},
        sfx \in {<<>>, <<"-", "r", "c", "1", "7">>} }
    \cup {<<>>, <<"2", ".", "x", "-", "d", "e", "v">>, <<"d", "e", "v", "-", "m", "a", "i", "n">>}

InitCompare ==
    /\ pc = "start"
    /\ impl \in {"regex", "split"}
    /\ raw \in CmpStrings
    /\ raw2 \in CmpStrings
    /\ shape = NoShape
    /\ ver = NoVersion
    /\ ver2 = NoVersion
    /\ pin = <<>>
    /\ pin2 = <<>>
    /\ cmp = 0
    /\ cmpBack = 0
    /\ FetchIdle
    /\ OtherIdle

\* va := ParseVersion(a); vb := ParseVersion(b)
ParsePairStep ==
    /\ pc = "start"
    /\ ver' = ParseBy(impl, raw)
    /\ ver2' = ParseBy(impl, raw2)
    /\ pc' = "parsedPair"
    /\ UNCHANGED <<impl, raw, shape, pin, pin2, raw2, cmp, cmpBack, fetchVars, otherVars>>

\* va.Compare(vb) and vb.Compare(va)
CompareStep ==
    /\ pc = "parsedPair"
    /\ cmp' = Compare(ver, ver2)
    /\ cmpBack' = Compare(ver2, ver)
    /\ pc' = "compared"
    /\ UNCHANGED <<impl, raw, shape, ver, pin, pin2, raw2, ver2, fetchVars, otherVars>>

NextCompare == ParsePairStep \/ CompareStep

SpecCompare == InitCompare /\ [][NextCompare]_vars

Sign(n) == IF n > 0 THEN 1 ELSE IF n < 0 THEN -1 ELSE 0

\* the numeric triple of a version, an absent segment taken as 0
Triple(v) == [i \in 1..3 |-> IF Numbers(v)[i] = -1 THEN 0 ELSE Numbers(v)[i]]

\* the sign of the lexicographic comparison of two triples
LexSign(a, b) ==
    LET diff == {i \in 1..3 : a[i] # b[i]}
        k    == CHOOSE i \in diff : \A j \in diff : i <= j
    IN  IF diff = {} THEN 0 ELSE IF a[k] > b[k] THEN 1 ELSE -1

\* C9: the sign of Compare(parse(a), parse(b)) is the sign of the
\* lexicographic comparison of the (major, minor, patch) triples with absent
\* segments taken as 0, and the opposite of the sign of
\* Compare(parse(b), parse(a)); prefix and stability play no part.
C9_CompareIsTripleOrder ==
    pc = "compared" =>
        /\ Sign(cmp) = LexSign(Triple(ver), Triple(ver2))
        /\ Sign(cmp) = 0 - Sign(cmpBack)

\* two versions that differ in prefix, in stability and in having a minor
\* segment were compared and found equal
C9_Witness ==
    /\ pc = "compared"
    /\ ver.Prefix # ver2.Prefix
    /\ ver.Stability # ver2.Stability
    /\ ver.Minor = -1
    /\ ver2.Minor = 0
    /\ cmp = 0

\* two versions that differ in the patch segment only were compared
C9_WitnessOrdered ==
    /\ pc = "compared"
    /\ ver.Major = ver2.Major
    /\ ver.Minor = ver2.Minor
    /\ ver.Patch > ver2.Patch
    /\ cmp > 0

(***************************************************************************)
(* Release selection and ordering                                          *)
(***************************************************************************)
\* the characters of the model in the order of their byte values
AsciiOrder ==
    <<" ", ",", "-", ".", "/">> \o Digits \o <<"@">> \o UpperLetters
        \o <<"[", "]", "^", "_">> \o LowerLetters

Code(ch) == CHOOSE i \in 1..Len(AsciiOrder) : AsciiOrder[i] = ch

\* the Go operator < on strings: bytewise lexicographic order
RECURSIVE StringLess(_, _)
StringLess(a, b) ==
    IF b = <<>> THEN FALSE
    ELSE IF a = <<>> THEN TRUE
    ELSE IF Head(a) # Head(b) THEN Code(Head(a)) < Code(Head(b))
    ELSE StringLess(Tail(a), Tail(b))

Published == <<"p", "u", "b", "l", "i", "s", "h", "e", "d">>

Unpublished == <<"u", "n", "p", "u", "b", "l", "i", "s", "h", "e", "d">>

\* Release, as decoded from a registry answer (the pin is not part of it)
Release(name, version, status) ==
    [Name |-> name, Version |-> version, VersionPin |-> <<>>, Status |-> status,
     CoreCompatibility |-> <<>>]

\* ParseSupportedBranches / parseSupportedBranches
RECURSIVE trimmedNonEmpty(_)
trimmedNonEmpty(parts) ==
    IF parts = <<>> THEN <<>>
    ELSE LET p == TrimSpace(Head(parts))
         IN  (IF p # <<>> THEN <<p>> ELSE <<>>) \o trimmedNonEmpty(Tail(parts))

ParseSupportedBranches(s) == IF s = <<>> THEN <<>> ELSE trimmedNonEmpty(Split(s, ","))

\* compareVersionStrings: the segment-wise comparison of two raw strings
RECURSIVE compareParts(_, _, _, _)
compareParts(partsA, partsB, k, maxLen) ==
    IF k > maxLen THEN 0
    ELSE LET sa == IF k <= Len(partsA) THEN partsA[k] ELSE <<>>
             sb == IF k <= Len(partsB) THEN partsB[k] ELSE <<>>
         IN  IF parseLeadingIntFound(sa) /\ parseLeadingIntFound(sb)
             THEN IF parseLeadingInt(sa) # parseLeadingInt(sb)
                  THEN parseLeadingInt(sa) - parseLeadingInt(sb)
                  ELSE compareParts(partsA, partsB, k + 1, maxLen)
             ELSE IF sa # sb
                  THEN IF StringLess(sa, sb) THEN -1 ELSE 1
                  ELSE compareParts(partsA, partsB, k + 1, maxLen)

compareVersionStrings(a, b) ==
    LET partsA == Split(TrimPrefix(a, Prefix8x), ".")
        partsB == Split(TrimPrefix(b, Prefix8x), ".")
        maxLen == IF Len(partsB) > Len(partsA) THEN Len(partsB) ELSE Len(partsA)
    IN  compareParts(partsA, partsB, 1, maxLen)

\* the order test each revision hands to the sort: "x goes before y"
Before(i, x, y) ==
    IF i = "string"
    THEN compareVersionStrings(x.Version, y.Version) > 0
    ELSE Compare(ParseBy(i, y.Version), ParseBy(i, x.Version)) < 0

\* the insertion sort that sort.Slice and slices.SortFunc run on a slice of
\* at most 12 elements: element j moves down while it goes before element j-1
RECURSIVE sinkElement(_, _, _)
sinkElement(i, s, j) ==
    IF j > 1 /\ Before(i, s[j], s[j - 1])
    THEN sinkElement(i, [s EXCEPT ![j] = s[j - 1], ![j - 1] = s[j]], j - 1)
    ELSE s

RECURSIVE insertionSort(_, _, _)
insertionSort(i, s, k) ==
    IF k > Len(s) THEN s ELSE insertionSort(i, sinkElement(i, s, k), k + 1)

\* SortReleasesDescending of drupalupdate.go
SortReleasesDescending(rs) == insertionSort("string", rs, 2)

\* sortReleases of the later revisions, on the parser of revision i
sortReleases(i, rs) == insertionSort(i, rs, 2)

\* the fallback of LatestPerBranch: the published releases, at most limit
RECURSIVE publishedUpTo(_, _, _)
publishedUpTo(rs, limit, acc) ==
    IF rs = <<>> THEN acc
    ELSE IF Head(rs).Status = Published
         THEN IF Len(acc) + 1 >= limit
              THEN Append(acc, Head(rs))
              ELSE publishedUpTo(Tail(rs), limit, Append(acc, Head(rs)))
         ELSE publishedUpTo(Tail(rs), limit, acc)

\* a fallback that returns the answer as it is
everyRelease(rs) == rs

\* the fallback of latestPerBranch: every published release
RECURSIVE publishedOnly(_)
publishedOnly(rs) ==
    IF rs = <<>> THEN <<>>
    ELSE (IF Head(rs).Status # Published THEN <<>> ELSE <<Head(rs)>>) \o publishedOnly(Tail(rs))

\* the inner loop of LatestPerBranch over the declared branches for one
\* release r: the first branch that is a prefix of r.Version gets r unless it
\* already has a release, and the loop stops there
RECURSIVE recordFirstBranch(_, _, _)
recordFirstBranch(found, r, bs) ==
    IF bs = <<>> THEN found
    ELSE IF HasPrefix(r.Version, Head(bs))
         THEN IF Head(bs) \in DOMAIN found THEN found ELSE (Head(bs) :> r) @@ found
         ELSE recordFirstBranch(found, r, Tail(bs))

\* the inner loop of latestPerBranch: every branch that is a prefix of
\* r.Version gets r unless it already has a release
RECURSIVE recordEveryBranch(_, _, _)
recordEveryBranch(found, r, bs) ==
    IF bs = <<>> THEN found
    ELSE IF HasPrefix(r.Version, Head(bs)) /\ Head(bs) \notin DOMAIN found
         THEN recordEveryBranch((Head(bs) :> r) @@ found, r, Tail(bs))
         ELSE recordEveryBranch(found, r, Tail(bs))

\* an outer loop that records a release whatever its status
RECURSIVE foundAnyStatus(_, _, _, _)
foundAnyStatus(found, rs, bs, breaks) ==
    IF rs = <<>> THEN found
    ELSE foundAnyStatus(IF breaks THEN recordFirstBranch(found, Head(rs), bs)
                                  ELSE recordEveryBranch(found, Head(rs), bs),
                        Tail(rs), bs, breaks)

\* the outer loop over the releases; breaks says which inner loop runs
RECURSIVE foundPerBranch(_, _, _, _)
foundPerBranch(found, rs, bs, breaks) ==
    IF rs = <<>> THEN found
    ELSE IF Head(rs).Status # Published
         THEN foundPerBranch(found, Tail(rs), bs, breaks)
         ELSE foundPerBranch(IF breaks THEN recordFirstBranch(found, Head(rs), bs)
                                       ELSE recordEveryBranch(found, Head(rs), bs),
                             Tail(rs), bs, breaks)

\* the final loop: the found release of each declared branch, in declared order
RECURSIVE inBranchOrder(_, _)
inBranchOrder(found, bs) ==
    IF bs = <<>> THEN <<>>
    ELSE (IF Head(bs) \in DOMAIN found THEN <<found[Head(bs)]>> ELSE <<>>)
             \o inBranchOrder(found, Tail(bs))


\* the cap of the fallback list of LatestPerBranch
FallbackLimit == 10

\* LatestPerBranch of drupalupdate.go
LatestPerBranch(rs, supportedBranches) ==
    IF Len(supportedBranches) = 0
    THEN publishedUpTo(rs, FallbackLimit, <<>>)
    ELSE inBranchOrder(foundPerBranch(EmptyMap, rs, supportedBranches, TRUE), supportedBranches)

\* latestPerBranch of the later revision
latestPerBranch(rs, supportedBranches) ==
    IF Len(supportedBranches) = 0
    THEN publishedOnly(rs)
    ELSE inBranchOrder(foundPerBranch(EmptyMap, rs, supportedBranches, FALSE), supportedBranches)

\* isStable / IsStableVersion
isStable(v) ==
    LET lower == ToLower(v.Version)
    IN  ~(\/ Contains(lower, <<"d", "e", "v">>)
          \/ Contains(lower, <<"a", "l", "p", "h", "a">>)
          \/ Contains(lower, <<"b", "e", "t", "a">>)
          \/ Contains(lower, <<"r", "c">>))

\* majorVersion / MajorVersion
majorVersion(v) == SplitN(v.VersionNormalized, ".", 2)[1]

\* the pin of a version string in revision i
PinBy(i, version) ==
    IF i = "string" THEN VersionPin(version) ELSE VersionVersionPin(ParseBy(i, version))

\* a selection that keeps the first entry of each major token, stable or not
RECURSIVE firstPerMajor(_, _, _, _)
firstPerMajor(i, pkg, vs, seen) ==
    IF vs = <<>> THEN <<>>
    ELSE IF majorVersion(Head(vs)) \in seen THEN firstPerMajor(i, pkg, Tail(vs), seen)
    ELSE LET version == TrimPrefix(Head(vs).Version, <<"v">>)
         IN  << [Name |-> pkg \o <<" ">> \o version, Version |-> version,
                 VersionPin |-> PinBy(i, version), Status |-> <<>>,
                 CoreCompatibility |-> <<>>] >>
             \o firstPerMajor(i, pkg, Tail(vs), seen \cup {majorVersion(Head(vs))})

\* latestStablePerPackagistMajor / LatestStablePerMajor, in revision i
RECURSIVE stablePerMajor(_, _, _, _)
stablePerMajor(i, pkg, vs, seen) ==
    IF vs = <<>> THEN <<>>
    ELSE IF ~isStable(Head(vs)) THEN stablePerMajor(i, pkg, Tail(vs), seen)
    ELSE IF majorVersion(Head(vs)) \in seen THEN stablePerMajor(i, pkg, Tail(vs), seen)
    ELSE LET version == TrimPrefix(Head(vs).Version, <<"v">>)
         IN  << [Name |-> pkg \o <<" ">> \o version, Version |-> version,
                 VersionPin |-> PinBy(i, version), Status |-> <<>>,
                 CoreCompatibility |-> <<>>] >>
             \o stablePerMajor(i, pkg, Tail(vs), seen \cup {majorVersion(Head(vs))})

latestStablePerPackagistMajor(i, pkg, vs) == stablePerMajor(i, pkg, vs, {})

\* result[i].VersionPin = pin of result[i].Version, for every i
withPins(i, rs) == [k \in 1..Len(rs) |-> [rs[k] EXCEPT !.VersionPin = PinBy(i, rs[k].Version)]]

(***************************************************************************)
(* A release fetch                                                         *)
(***************************************************************************)
\* the largest number of releases in an answer of the CMS registry
MaxReleases == 3

\* the largest number of entries of the supported-branches string
MaxBranches == 2

\* the largest number of version entries in an answer of the general registry
MaxVersions == 4

\* the entries the comma-separated supported-branches string is joined from;
\* one is blank and one carries spaces
BranchEntries == {<<"3", ".">>, <<"3", ".", "0", ".">>, <<" ", "3", ".", "1", ".", " ">>, <<" ">>, <<"8", ".", "x", "-", "1", ".">>}

\* strings.Join(entries, ",")
RECURSIVE Join(_)
Join(entries) ==
    IF entries = <<>> THEN <<>>
    ELSE IF Len(entries) = 1 THEN entries[1]
    ELSE Head(entries) \o <<",">> \o Join(Tail(entries))

SupportedStrings == {Join(es) : es \in SeqsUpTo(BranchEntries, MaxBranches)}

\* the releases a CMS registry answer is made of
DrupalReleases ==
    { Release(<<>>, <<"3", ".", "0", ".", "5">>, Published),
      Release(<<>>, <<"3", ".", "0", ".", "4">>, Published),
      Release(<<>>, <<"3", ".", "0", ".", "6">>, Unpublished),
      Release(<<>>, <<"3", ".", "1", ".", "0">>, Published),
      Release(<<>>, <<"3", ".", "x", "-", "d", "e", "v">>, Published),
      Release(<<>>, <<"8", ".", "x", "-", "1", ".", "5">>, Published) }

\* the largest number of releases in a long answer of the CMS registry
MaxCatalog == 12

\* a long answer of the CMS registry: n releases 1.0.(n-1) down to 1.0.0 in
\* catalog order, all published but the one at position u (none when u = 0)
Catalog(n, u) ==
    [k \in 1..n |-> Release(<<>>, <<"1", ".", "0", ".">> \o Itoa(n - k),
                            IF k = u THEN Unpublished ELSE Published)]

LongCatalogs == {Catalog(n, u) : n \in (MaxReleases + 1)..MaxCatalog, u \in 0..2}

\* the version entries a general registry answer is made of
PackagistVersions ==
    { [Version |-> <<"1", "3", ".", "0", ".", "1">>,     VersionNormalized |-> <<"1", "3", ".", "0", ".", "1", ".", "0">>],
      [Version |-> <<"v", "1", "3", ".", "0", ".", "0">>,    VersionNormalized |-> <<"1", "3", ".", "0", ".", "0", ".", "0">>],
      [Version |-> <<"1", "3", ".", "1", ".", "0", "-", "R", "C", "1">>, VersionNormalized |-> <<"1", "3", ".", "1", ".", "0", ".", "0", "-", "R", "C", "1">>],
      [Version |-> <<"1", "2", ".", "5", ".", "6">>,     VersionNormalized |-> <<"1", "2", ".", "5", ".", "6", ".", "0">>],
      [Version |-> <<"1", "2", ".", "4", ".", "0">>,     VersionNormalized |-> <<"1", "2", ".", "4", ".", "0", ".", "0">>],
      [Version |-> <<"d", "e", "v", "-", "m", "a", "i", "n">>,   VersionNormalized |-> <<"9", "9", "9", "9", "9", "9", "9", "-", "d", "e", "v">>] }

\* the package the general registry is asked about
Pkg == <<"d", "r", "u", "s", "h", "/", "d", "r", "u", "s", "h">>

InitFetch ==
    /\ pc = "start"
    /\ impl \in Impls
    /\ raw = <<>>
    /\ shape = NoShape
    /\ ver = NoVersion
    /\ pin = <<>>
    /\ pin2 = <<>>
    /\ raw2 = <<>>
    /\ ver2 = NoVersion
    /\ cmp = 0
    /\ cmpBack = 0
    /\ registry \in {"drupal", "packagist"}
    /\ httpOK \in BOOLEAN
    /\ supported \in (IF registry = "drupal" /\ httpOK THEN SupportedStrings ELSE {<<>>})
    /\ releases \in (IF registry = "drupal" /\ httpOK THEN SeqsUpTo(DrupalReleases, MaxReleases) \cup LongCatalogs ELSE {<<>>})
    /\ versions \in (IF registry = "packagist" /\ httpOK THEN SeqsUpTo(PackagistVersions, MaxVersions) ELSE {<<>>})
    /\ branches = <<>>
    /\ selected = <<>>
    /\ result = <<>>
    /\ err = FALSE
    /\ OtherIdle

\* a response with a status other than 200, or a body that does not decode:
\* the fetch returns an error and no list
FetchFails ==
    /\ pc = "start"
    /\ ~httpOK
    /\ err' = TRUE
    /\ pc' = "fetched"
    /\ UNCHANGED <<otherVars, versionVars, registry, httpOK, supported, releases, versions, branches, selected, result>>

\* Client.FetchReleases of drupalupdate.go
FetchReleasesLegacy ==
    /\ pc = "start"
    /\ impl = "string"
    /\ registry = "drupal"
    /\ httpOK
    /\ branches' = ParseSupportedBranches(supported)
    /\ selected' = LatestPerBranch(releases, branches')
    /\ result' = SortReleasesDescending(withPins(impl, selected'))
    /\ pc' = "fetched"
    /\ UNCHANGED <<otherVars, versionVars, registry, httpOK, supported, releases, versions, err>>

\* Client.FetchReleases of the later revision
FetchReleases ==
    /\ pc = "start"
    /\ impl \in {"regex", "split"}
    /\ registry = "drupal"
    /\ httpOK
    /\ branches' = ParseSupportedBranches(supported)
    /\ selected' = latestPerBranch(releases, branches')
    /\ result' = sortReleases(impl, withPins(impl, selected'))
    /\ pc' = "fetched"
    /\ UNCHANGED <<otherVars, versionVars, registry, httpOK, supported, releases, versions, err>>

\* Client.FetchPackagistReleases of drupalupdate.go
FetchPackagistReleasesLegacy ==
    /\ pc = "start"
    /\ impl = "string"
    /\ registry = "packagist"
    /\ httpOK
    /\ selected' = latestStablePerPackagistMajor(impl, Pkg, versions)
    /\ result' = SortReleasesDescending(selected')
    /\ pc' = "fetched"
    /\ UNCHANGED <<otherVars, versionVars, registry, httpOK, supported, releases, versions, branches, err>>

\* Client.FetchPackagistReleases of the later revision
FetchPackagistReleases ==
    /\ pc = "start"
    /\ impl \in {"regex", "split"}
    /\ registry = "packagist"
    /\ httpOK
    /\ selected' = latestStablePerPackagistMajor(impl, Pkg, versions)
    /\ result' = sortReleases(impl, selected')
    /\ pc' = "fetched"
    /\ UNCHANGED <<otherVars, versionVars, registry, httpOK, supported, releases, versions, branches, err>>

NextFetch ==
    \/ FetchFails
    \/ FetchReleasesLegacy
    \/ FetchReleases
    \/ FetchPackagistReleasesLegacy
    \/ FetchPackagistReleases

SpecFetch == InitFetch /\ [][NextFetch]_vars

(***************************************************************************)
(* Claims about a release fetch (checked under SpecFetch)                  *)
(***************************************************************************)
\* the parser of the Version comparator a result list is judged by; the
\* revision that sorts raw strings is judged by the regular-expression parser
JudgeParse(i, s) == IF i = "split" THEN ParseVersionSplit(s) ELSE ParseVersion(s)

\* rs is in descending order under the Version comparator
Descending(i, rs) ==
    \A k \in 1..(Len(rs) - 1) :
        Compare(JudgeParse(i, rs[k].Version), JudgeParse(i, rs[k + 1].Version)) >= 0

\* C1: every release list returned by a release fetch, from the CMS registry
\* or from the general registry, is in descending order under the Version
\* comparator.
C1_ResultDescending ==
    (pc = "fetched" /\ ~err) => Descending(impl, result)

\* the positions of the published releases whose version starts with branch b
Matches(rs, b) == {k \in 1..Len(rs) : rs[k].Status = Published /\ HasPrefix(rs[k].Version, b)}

\* for each declared branch with a published match, in declared order, the
\* first published release in catalog order that starts with the branch
RECURSIVE FirstPerBranch(_, _)
FirstPerBranch(rs, bs) ==
    IF bs = <<>> THEN <<>>
    ELSE LET m == Matches(rs, Head(bs))
         IN  (IF m = {} THEN <<>> ELSE <<rs[CHOOSE k \in m : \A j \in m : k <= j]>>)
                 \o FirstPerBranch(rs, Tail(bs))

\* C2: for every list of declared branch prefixes, also one in which a prefix
\* is a prefix of another, branch selection returns for each declared branch
\* exactly the first published release in catalog order whose version starts
\* with the branch, and nothing for a branch without a published match.
C2_OneReleasePerBranch ==
    (pc = "fetched" /\ ~err /\ registry = "drupal" /\ branches # <<>>) =>
        selected = FirstPerBranch(releases, branches)

\* C3: no release whose status is not "published" appears in the output of
\* branch selection, with or without declared branches.
C3_OnlyPublishedSelected ==
    (pc = "fetched" /\ registry = "drupal") =>
        /\ \A k \in 1..Len(selected) : selected[k].Status = Published
        /\ \A k \in 1..Len(result) : result[k].Status = Published

\* branch selection ran on an answer that holds an unpublished release ahead
\* of a published one of the same declared branch, and selected a release
C3_Witness ==
    /\ pc = "fetched"
    /\ registry = "drupal"
    /\ branches # <<>>
    /\ selected # <<>>
    /\ \E k \in 1..Len(releases) :
          /\ releases[k].Status # Published
          /\ HasPrefix(releases[k].Version, branches[1])
          /\ \E j \in (k + 1)..Len(releases) :
                releases[j].Status = Published /\ HasPrefix(releases[j].Version, branches[1])

\* the positions of the stable entries of vs with the major token of entry k
StableOfMajor(vs, k) ==
    {j \in 1..Len(vs) : isStable(vs[j]) /\ majorVersion(vs[j]) = majorVersion(vs[k])}

\* the positions of all entries of vs with the major token of entry k
MajorLine(vs, k) == {j \in 1..Len(vs) : majorVersion(vs[j]) = majorVersion(vs[k])}

\* the positions major-line selection has to keep: the first stable entry of
\* each major token
Kept(vs) == {k \in 1..Len(vs) : isStable(vs[k]) /\ \A j \in StableOfMajor(vs, k) : k <= j}

\* the entries at the positions ks, in input order, as version strings
RECURSIVE VersionsAt(_, _, _)
VersionsAt(vs, ks, k) ==
    IF k > Len(vs) THEN <<>>
    ELSE (IF k \in ks THEN <<TrimPrefix(vs[k].Version, <<"v">>)>> ELSE <<>>)
             \o VersionsAt(vs, ks, k + 1)

VersionOf(i, v) == JudgeParse(i, TrimPrefix(v.Version, <<"v">>))

\* the input of major-line selection is ordered newest-first
NewestFirst(i, vs) ==
    \A k \in 1..(Len(vs) - 1) : Compare(VersionOf(i, vs[k]), VersionOf(i, vs[k + 1])) >= 0

\* major-line selection returns the first stable entry of each major token,
\* and nothing else
FirstStablePerMajor ==
    [k \in 1..Len(selected) |-> selected[k].Version] = VersionsAt(versions, Kept(versions), 1)

\* C10: major-line selection returns exactly one release per major token
\* that has a stable entry, the first stable entry with that token, and
\* nothing for unstable entries; when the input is newest-first the kept
\* entry is the highest version of its major line.
C10_LatestPerMajorLine ==
    (pc = "fetched" /\ ~err /\ registry = "packagist") =>
        /\ FirstStablePerMajor
        /\ NewestFirst(impl, versions) =>
              \A k \in Kept(versions) : \A j \in MajorLine(versions, k) :
                  Compare(VersionOf(impl, versions[k]), VersionOf(impl, versions[j])) >= 0

\* C10 as amended: ... when the input is newest-first the kept entry is the
\* highest stable version of its major line.
C10_LatestStablePerMajorLine ==
    (pc = "fetched" /\ ~err /\ registry = "packagist") =>
        /\ FirstStablePerMajor
        /\ NewestFirst(impl, versions) =>
              \A k \in Kept(versions) : \A j \in StableOfMajor(versions, k) :
                  Compare(VersionOf(impl, versions[k]), VersionOf(impl, versions[j])) >= 0

\* major-line selection ran on a newest-first answer with two stable entries
\* and an unstable entry of one major line and a stable entry of another,
\* and kept one release of each line
C10_Witness ==
    /\ pc = "fetched"
    /\ registry = "packagist"
    /\ NewestFirst(impl, versions)
    /\ Len(versions) = 4
    /\ Len(selected) = 2
    /\ \E k \in 1..Len(versions) : ~isStable(versions[k])
    /\ \E k \in Kept(versions) : Cardinality(StableOfMajor(versions, k)) >= 2

\* the published releases of rs, in the order of rs
PublishedOf(rs) == SelectSeq(rs, LAMBDA r : r.Status = Published)

\* C11: when no supported branches are declared, branch selection returns
\* every published release of the input, each exactly once and in catalog
\* order, whatever the number of published releases.
C11_FallbackAllPublished ==
    (pc = "fetched" /\ ~err /\ registry = "drupal" /\ branches = <<>>) =>
        selected = PublishedOf(releases)

\* C11 as amended: without declared branches, branch selection returns the
\* published releases of the input in catalog order, each exactly once: all
\* of them in latestPerBranch, the first ten of them in LatestPerBranch of
\* drupalupdate.go.
C11_FallbackPublishedUpToLimit ==
    (pc = "fetched" /\ ~err /\ registry = "drupal" /\ branches = <<>>) =>
        LET all == PublishedOf(releases)
        IN  selected = IF impl = "string" /\ Len(all) > FallbackLimit
                       THEN SubSeq(all, 1, FallbackLimit)
                       ELSE all

\* the later revision ran the fallback on an answer with more than ten
\* published releases and an unpublished one, and returned all the published
C11_Witness ==
    /\ pc = "fetched"
    /\ registry = "drupal"
    /\ impl # "string"
    /\ branches = <<>>
    /\ Len(selected) > FallbackLimit
    /\ Len(selected) < Len(releases)

(***************************************************************************)
(* The package lists of a manifest                                         *)
(***************************************************************************)
\* no version string is parsed or compared
VersionIdle ==
    /\ raw = <<>>
    /\ shape = NoShape
    /\ ver = NoVersion
    /\ pin = <<>>
    /\ pin2 = <<>>
    /\ raw2 = <<>>
    /\ ver2 = NoVersion
    /\ cmp = 0
    /\ cmpBack = 0

IsLowerAlnum(ch) == ch \in Range(LowerLetters) \/ IsDigit(ch)

IsNameSeparator(ch) == ch \in {"_", ".", "-"}

\* [a-z0-9]([_.-]?[a-z0-9]+)* on the whole of s: s starts and ends with a
\* lower-case letter or digit, holds nothing but those and the separators
\* _ . - and never two separators in a row
namePartOk(s) ==
    /\ s # <<>>
    /\ IsLowerAlnum(s[1])
    /\ IsLowerAlnum(s[Len(s)])
    /\ \A k \in 1..Len(s) : IsLowerAlnum(s[k]) \/ IsNameSeparator(s[k])
    /\ \A k \in 1..(Len(s) - 1) : ~(IsNameSeparator(s[k]) /\ IsNameSeparator(s[k + 1]))

\* packageNameRegex.MatchString: one part, a slash, one part
packageNameRegex(pkg) ==
    LET slash == Index(pkg, <<"/">>)
    IN  /\ slash # -1
        /\ namePartOk(Take(pkg, slash))
        /\ namePartOk(Drop(pkg, slash + 1))

\* the errors of checkPackageName; NoError is nil
NoError == <<>>

errPackageNameEmpty == <<"p", "a", "c", "k", "a", "g", "e", " ", "n", "a", "m", "e", " ", "c", "a", "n", "n", "o", "t", " ", "b", "e", " ", "e", "m", "p", "t", "y">>

errPackageNameFormat == <<"p", "a", "c", "k", "a", "g", "e", " ", "n", "a", "m", "e", " ", "m", "u", "s", "t", " ", "m", "a", "t", "c", "h", " ", "f", "o", "r", "m", "a", "t", " ", "v", "e", "n", "d", "o", "r", "/", "p", "a", "c", "k", "a", "g", "e">>

\* a check that accepts every name
acceptAnyName(pkg) == NoError

\* checkPackageName of the client
checkPackageName(pkg) ==
    IF pkg = <<>> THEN errPackageNameEmpty
    ELSE IF ~packageNameRegex(pkg) THEN errPackageNameFormat
    ELSE NoError

DrupalVendor == <<"d", "r", "u", "p", "a", "l", "/">>

\* drupalModuleName / DrupalModuleName
drupalModuleName(pkg) ==
    IF ~HasPrefix(pkg, DrupalVendor)
    THEN [name |-> <<>>, ok |-> FALSE]
    ELSE [name |-> Drop(pkg, Len(DrupalVendor)), ok |-> TRUE]

\* isCorePackage of composer.go
isCorePackage(name) == name = <<"c", "o", "r", "e">> \/ HasPrefix(name, <<"c", "o", "r", "e", "-">>)

\* IsCorePackage of drupalupdate.go
IsCorePackage(moduleName) ==
    moduleName \in { <<"c", "o", "r", "e">>, <<"c", "o", "r", "e", "-", "r", "e", "c", "o", "m", "m", "e", "n", "d", "e", "d">>, <<"c", "o", "r", "e", "-", "c", "o", "m", "p", "o", "s", "e", "r", "-", "s", "c", "a", "f", "f", "o", "l", "d">>,
                     <<"c", "o", "r", "e", "-", "p", "r", "o", "j", "e", "c", "t", "-", "m", "e", "s", "s", "a", "g", "e">>, <<"c", "o", "r", "e", "-", "d", "e", "v">> }

\* the core test of revision i
CoreBy(i, name) == IF i = "string" THEN IsCorePackage(name) ELSE isCorePackage(name)

\* the second test of isSkippablePackage and the first of IsSkippablePackage
isPlatformPackage(pkg) ==
    \/ pkg = <<"p", "h", "p">>
    \/ pkg = <<"c", "o", "m", "p", "o", "s", "e", "r">>
    \/ HasPrefix(pkg, <<"e", "x", "t", "-">>)
    \/ HasPrefix(pkg, <<"l", "i", "b", "-">>)

\* a test that skips no package
neverSkippable(pkg) == FALSE

\* isSkippablePackage of composer.go
isSkippablePackage(pkg) ==
    IF checkPackageName(pkg) # NoError THEN TRUE
    ELSE IF isPlatformPackage(pkg) THEN TRUE
    ELSE drupalModuleName(pkg).ok /\ isCorePackage(drupalModuleName(pkg).name)

\* IsSkippablePackage of drupalupdate.go
IsSkippablePackage(name) ==
    IF isPlatformPackage(name) THEN TRUE
    ELSE drupalModuleName(name).ok /\ IsCorePackage(drupalModuleName(name).name)

SkippableBy(i, name) == IF i = "string" THEN IsSkippablePackage(name) ELSE isSkippablePackage(name)

\* the names of a set from the last to the first
RECURSIVE descendingByName(_)
descendingByName(names) ==
    IF names = {} THEN <<>>
    ELSE LET last == CHOOSE n \in names : \A o \in names \ {n} : StringLess(o, n)
         IN  <<last>> \o descendingByName(names \ {last})

\* sort.Slice(pkgs, pkgs[i].Name < pkgs[j].Name) on the names of a map: the
\* names are distinct, so the order does not depend on the map iteration
RECURSIVE sortedByName(_)
sortedByName(names) ==
    IF names = {} THEN <<>>
    ELSE LET first == CHOOSE n \in names : \A o \in names \ {n} : StringLess(n, o)
         IN  <<first>> \o sortedByName(names \ {first})

\* filterPackages: the entries of c.Require the filter includes, by name
filterPackages(c, filter) ==
    LET names == sortedByName({n \in DOMAIN c : filter[n].include})
    IN  [k \in 1..Len(names) |->
            [Name |-> names[k], Module |-> filter[names[k]].module,
             Version |-> c[names[k]]]]

\* the filter of DrupalPackages, in revision i
drupalFilter(i, name) ==
    [module |-> drupalModuleName(name).name,
     include |-> drupalModuleName(name).ok /\ ~CoreBy(i, drupalModuleName(name).name)]

\* a filter that takes every package of the vendor drupal for a core package
anyDrupalFilter(i, name) ==
    [module |-> drupalModuleName(name).name, include |-> drupalModuleName(name).ok]

\* the filter of CorePackages, in revision i
coreFilter(i, name) ==
    [module |-> drupalModuleName(name).name,
     include |-> drupalModuleName(name).ok /\ CoreBy(i, drupalModuleName(name).name)]

\* the filter of ComposerPackages, in revision i
composerFilter(i, name) ==
    IF SkippableBy(i, name) THEN [module |-> <<>>, include |-> FALSE]
    ELSE IF drupalModuleName(name).ok THEN [module |-> <<>>, include |-> FALSE]
    ELSE [module |-> name, include |-> TRUE]

DrupalPackages(i, c) == filterPackages(c, [name \in DOMAIN c |-> drupalFilter(i, name)])

CorePackages(i, c) == filterPackages(c, [name \in DOMAIN c |-> coreFilter(i, name)])

ComposerPackages(i, c) == filterPackages(c, [name \in DOMAIN c |-> composerFilter(i, name)])

\* the largest number of entries of a dependency map
MaxRequire == 3

\* the names a dependency map is made of: platform packages, core packages
\* (one of them not among the five known meta-packages), modules, packages of
\* other vendors, and names that are not of the form vendor/package
PackageNames ==
    { <<"p", "h", "p">>, <<"c", "o", "m", "p", "o", "s", "e", "r">>, <<"e", "x", "t", "-", "j", "s", "o", "n">>, <<"l", "i", "b", "-", "o", "p", "e", "n", "s", "s", "l">>,
      <<"d", "r", "u", "p", "a", "l", "/", "c", "o", "r", "e">>, <<"d", "r", "u", "p", "a", "l", "/", "c", "o", "r", "e", "-", "r", "e", "c", "o", "m", "m", "e", "n", "d", "e", "d">>, <<"d", "r", "u", "p", "a", "l", "/", "c", "o", "r", "e", "-", "v", "e", "n", "d", "o", "r", "-", "h", "a", "r", "d", "e", "n", "i", "n", "g">>,
      <<"d", "r", "u", "p", "a", "l", "/", "c", "o", "r", "e", "x">>, <<"d", "r", "u", "p", "a", "l", "/", "g", "i", "n">>, <<"d", "r", "u", "p", "a", "l", "/", "a", "d", "m", "i", "n", "_", "t", "o", "o", "l", "b", "a", "r">>,
      <<"d", "r", "u", "s", "h", "/", "d", "r", "u", "s", "h">>, <<"c", "o", "m", "p", "o", "s", "e", "r", "/", "i", "n", "s", "t", "a", "l", "l", "e", "r", "s">>, <<"c", "o", "m", "p", "o", "s", "e", "r", "-", "p", "l", "u", "g", "i", "n", "-", "a", "p", "i">> }

\* the constraints a dependency carries
Constraints == { <<"^", "1", ".", "0">>, <<"8", ".", "x", "-", "1", ".", "5">> }

\* the dependency maps with at most MaxRequire entries
RequireMaps ==
    UNION { [names -> Constraints] :
              names \in {ns \in SUBSET PackageNames : Cardinality(ns) <= MaxRequire} }

InitPackages ==
    /\ pc = "start"
    /\ impl \in {"regex", "string"}
    /\ VersionIdle
    /\ FetchIdle
    /\ require \in RequireMaps
    /\ listed = {}
    /\ corePkgs = <<>>
    /\ drupalPkgs = <<>>
    /\ composerPkgs = <<>>
    /\ ManifestIdle
    /\ ClientIdle
    /\ LoadIdle
    /\ LaterIdle

\* c.CorePackages()
CorePackagesStep ==
    /\ pc = "start"
    /\ "core" \notin listed
    /\ corePkgs' = CorePackages(impl, require)
    /\ listed' = listed \cup {"core"}
    /\ UNCHANGED <<pc, laterVars, versionVars, fetchVars, manifestVars, clientVars, loadVars, require, drupalPkgs, composerPkgs>>

\* c.DrupalPackages()
DrupalPackagesStep ==
    /\ pc = "start"
    /\ "drupal" \notin listed
    /\ drupalPkgs' = DrupalPackages(impl, require)
    /\ listed' = listed \cup {"drupal"}
    /\ UNCHANGED <<pc, laterVars, versionVars, fetchVars, manifestVars, clientVars, loadVars, require, corePkgs, composerPkgs>>

\* c.ComposerPackages()
ComposerPackagesStep ==
    /\ pc = "start"
    /\ "composer" \notin listed
    /\ composerPkgs' = ComposerPackages(impl, require)
    /\ listed' = listed \cup {"composer"}
    /\ UNCHANGED <<pc, laterVars, versionVars, fetchVars, manifestVars, clientVars, loadVars, require, corePkgs, drupalPkgs>>

NextPackages == CorePackagesStep \/ DrupalPackagesStep \/ ComposerPackagesStep

SpecPackages == InitPackages /\ [][NextPackages]_vars

(***************************************************************************)
(* Claims about the package lists (checked under SpecPackages)             *)
(***************************************************************************)
AllListed == listed = {"core", "drupal", "composer"}

\* the names of a package list
NamesOf(pkgs) == {pkgs[k].Name : k \in 1..Len(pkgs)}

\* how often name occurs in a package list
Occurrences(pkgs, name) == Cardinality({k \in 1..Len(pkgs) : pkgs[k].Name = name})

\* C12: the core, module and other lists are pairwise disjoint, every entry
\* whose name begins with drupal/ is in exactly one of the core list and the
\* module list, and every element of a list is an entry of the map with its
\* declared constraint.
C12_ListsPartitionTheMap ==
    AllListed =>
        /\ NamesOf(corePkgs) \cap NamesOf(drupalPkgs) = {}
        /\ NamesOf(corePkgs) \cap NamesOf(composerPkgs) = {}
        /\ NamesOf(drupalPkgs) \cap NamesOf(composerPkgs) = {}
        /\ \A n \in DOMAIN require :
              HasPrefix(n, DrupalVendor) =>
                  Occurrences(corePkgs, n) + Occurrences(drupalPkgs, n) = 1
        /\ \A pkgs \in {corePkgs, drupalPkgs, composerPkgs} :
              \A k \in 1..Len(pkgs) :
                  pkgs[k].Name \in DOMAIN require /\ pkgs[k].Version = require[pkgs[k].Name]

\* the three lists were computed for a map that holds a core package, a
\* module and a package of another vendor
C12_Witness ==
    /\ AllListed
    /\ corePkgs # <<>>
    /\ drupalPkgs # <<>>
    /\ composerPkgs # <<>>

\* the entries C13 puts on the other list
NotVendorNotPlatform(c) ==
    {n \in DOMAIN c : ~HasPrefix(n, DrupalVendor) /\ ~isPlatformPackage(n)}

\* C13: the other list holds exactly the entries whose name does not begin
\* with drupal/ and is none of php, composer, ext-* and lib-*; no entry is
\* dropped for any other reason.
C13_OtherListExact ==
    "composer" \in listed => NamesOf(composerPkgs) = NotVendorNotPlatform(require)

\* C13 as amended: in composer.go the other list holds exactly those entries
\* whose name also is of the form vendor/package; an entry with any other
\* name is dropped as well. In drupalupdate.go the name is not tested.
C13_OtherListExactValidNames ==
    "composer" \in listed =>
        NamesOf(composerPkgs) =
            {n \in NotVendorNotPlatform(require) : impl = "string" \/ checkPackageName(n) = NoError}

\* the other list was computed for a map that holds a package of another
\* vendor, a platform package and a name without a vendor
C13_Witness ==
    /\ "composer" \in listed
    /\ impl = "regex"
    /\ composerPkgs # <<>>
    /\ <<"p", "h", "p">> \in DOMAIN require
    /\ <<"c", "o", "m", "p", "o", "s", "e", "r", "-", "p", "l", "u", "g", "i", "n", "-", "a", "p", "i">> \in DOMAIN require

\* C14: isCorePackage(slug) is true exactly when slug is core or begins with
\* core-; every core-* variant is classified as core and kept out of the
\* module list.
C14_CoreIsCoreOrCoreDash ==
    ({"core", "drupal"} \subseteq listed) =>
        \A n \in DOMAIN require :
            HasPrefix(n, DrupalVendor) =>
                LET slug == Drop(n, Len(DrupalVendor))
                    core == slug = <<"c", "o", "r", "e">> \/ HasPrefix(slug, <<"c", "o", "r", "e", "-">>)
                IN  /\ CoreBy(impl, slug) = core
                    /\ n \in NamesOf(corePkgs) <=> core
                    /\ core => n \notin NamesOf(drupalPkgs)

(***************************************************************************)
(* The manifest: decoding, updating and encoding                           *)
(***************************************************************************)
\* A JSON value as it is written in a document.  kind is "string", "number",
\* "map" (an object of strings, the dependency map) or "null"; wrapped says
\* that the string or number is the one member of an object.  The text of a
\* string is a sequence of tokens, where "u003c" stands for the six
\* characters of the escape of "<".  A number is the integer n, or
\* 2^53 + n when big is set; frac says that it is written with a fraction .0
JString(text, wrapped) ==
    [kind |-> "string", wrapped |-> wrapped, text |-> text, big |-> FALSE, n |-> 0,
     frac |-> FALSE, entries |-> EmptyMap]

JNumber(big, n, frac, wrapped) ==
    [kind |-> "number", wrapped |-> wrapped, text |-> <<>>, big |-> big, n |-> n,
     frac |-> frac, entries |-> EmptyMap]

JMap(entries) ==
    [kind |-> "map", wrapped |-> FALSE, text |-> <<>>, big |-> FALSE, n |-> 0,
     frac |-> FALSE, entries |-> entries]

JNull == [JMap(EmptyMap) EXCEPT !.kind = "null"]

\* the string a JSON string literal denotes
unquote(text) == [k \in 1..Len(text) |-> IF text[k] = "u003c" THEN "<" ELSE text[k]]

\* the JSON string literal the encoder writes, with escapeHTML set
quoteHTML(chars) == [k \in 1..Len(chars) |-> IF chars[k] = "<" THEN "u003c" ELSE chars[k]]

\* the float64 nearest to 2^53 + n, as an offset from 2^53: between 2^53 and
\* 2^54 the float64 values are the even integers, and a tie goes to the one
\* with the even mantissa
nearestFloat64(n) ==
    IF n % 2 = 0 THEN n ELSE IF (n + 1) % 4 = 0 THEN n + 1 ELSE n - 1

\* the value a document value denotes
JsonValue(v) ==
    [v EXCEPT !.text = unquote(v.text), !.frac = FALSE]

\* json.RawMessage through the encoder: the bytes are compacted and indented,
\* with the characters of HTML escaped
encodeRawMessage(v) == [v EXCEPT !.text = quoteHTML(unquote(v.text))]

\* json.Unmarshal into any and json.MarshalIndent of the result: a number
\* becomes a float64 and is written in its shortest form
encodeAny(v) ==
    [v EXCEPT !.text = quoteHTML(unquote(v.text)),
              !.n = IF v.big THEN nearestFloat64(v.n) ELSE v.n,
              !.frac = FALSE]

RequireKey == <<"r", "e", "q", "u", "i", "r", "e">>

\* the keys of a sequence of fields, in order
KeysOf(fields) == [k \in 1..Len(fields) |-> fields[k].key]

\* json.Unmarshal of a document into a map: key to value as written
fieldBag(fields) ==
    [key \in Range(KeysOf(fields)) |->
        (CHOOSE f \in Range(fields) : f.key = key).value]

\* json.Unmarshal of the "require" member into c.Require: a map is stored,
\* null and an absent member leave the nil map
decodeRequire(bag) ==
    IF RequireKey \in DOMAIN bag /\ bag[RequireKey].kind = "map"
    THEN [isNil |-> FALSE, entries |-> bag[RequireKey].entries]
    ELSE NilRequire

\* json.MarshalIndent of a map: the members in ascending order of their keys
marshalSorted(bag) ==
    LET keys == sortedByName(DOMAIN bag)
    IN  [k \in 1..Len(keys) |-> [key |-> keys[k], value |-> bag[keys[k]]]]

\* function f with key k set to v, or added
WithKey(f, k, v) == [x \in DOMAIN f \cup {k} |-> IF x = k THEN v ELSE f[x]]

\* function f without key k
WithoutKey(f, k) == [x \in DOMAIN f \ {k} |-> f[x]]

\* ComposerJSON.MarshalJSON of composer.go
MarshalJSON(bag, req) ==
    LET original == IF ~req.isNil
                    THEN WithKey(bag, RequireKey, JMap(req.entries))
                    ELSE WithoutKey(bag, RequireKey)
    IN  marshalSorted([key \in DOMAIN original |-> encodeRawMessage(original[key])])

\* sortedRequire of drupalupdate.go: a map that is never nil
sortedRequire(req) == req.entries

\* MarshalComposerJSON of drupalupdate.go
MarshalComposerJSON(bag, req) ==
    LET original == WithKey(bag, RequireKey, JMap(sortedRequire(req)))
    IN  marshalSorted([key \in DOMAIN original |-> encodeAny(original[key])])

\* a loop that sets every name of the version map, a dependency or not
setVersions(req, versionMap) ==
    [req EXCEPT !.entries =
        [name \in DOMAIN req.entries \cup DOMAIN versionMap |->
            IF name \in DOMAIN versionMap THEN versionMap[name] ELSE req.entries[name]]]

\* the loop of handleUpdate: a name of the version map that is a dependency
\* gets the version of the map
applyVersions(req, versionMap) ==
    [req EXCEPT !.entries =
        [name \in DOMAIN req.entries |->
            IF name \in DOMAIN versionMap THEN versionMap[name] ELSE req.entries[name]]]

\* the largest number of top-level fields of a manifest
MaxFields == 3

\* the keys of the top-level fields of a manifest
FieldKeys == { <<"n", "a", "m", "e">>, <<"e", "x", "t", "r", "a">>, <<"c", "o", "n", "f", "i", "g">>, RequireKey }

\* the values of a field other than the dependency map: a string with a
\* character of HTML, written as it is or escaped, a number with a fraction,
\* and an object that holds an integer above 2^53
FieldValues ==
    { JString(<<"a", "<">>, FALSE), JString(<<"u003c">>, FALSE),
      JNumber(FALSE, 1, TRUE, FALSE), JNumber(TRUE, 1, FALSE, TRUE) }

\* the values of the field "require"
RequireValues ==
    { JNull, JMap(EmptyMap),
      JMap(<<"d", "r", "u", "p", "a", "l", "/", "g", "i", "n">> :> <<"^", "1", ".", "0">>),
      JMap(<<"d", "r", "u", "s", "h", "/", "d", "r", "u", "s", "h">> :> <<"^", "1", ".", "0">> @@ <<"d", "r", "u", "p", "a", "l", "/", "g", "i", "n">> :> <<"8", ".", "x", "-", "1", ".", "5">>) }

ValuesFor(key) == IF key = RequireKey THEN RequireValues ELSE FieldValues

\* the documents with the keys ks, in that order
DocumentsOf(ks) ==
    { [k \in 1..Len(ks) |-> [key |-> ks[k], value |-> vs[k]]] :
        vs \in {f \in [1..Len(ks) -> FieldValues \cup RequireValues] :
                   \A k \in 1..Len(ks) : f[k] \in ValuesFor(ks[k])} }

\* the valid manifests: at most MaxFields fields with distinct keys
Manifests ==
    UNION { DocumentsOf(ks) :
              ks \in {q \in SeqsUpTo(FieldKeys, MaxFields) :
                         \A i, j \in 1..Len(q) : i # j => q[i] # q[j]} }

\* the version maps of an update request
VersionMaps ==
    { EmptyMap,
      <<"d", "r", "u", "p", "a", "l", "/", "g", "i", "n">> :> <<"^", "2", ".", "0">>,
      <<"d", "r", "u", "p", "a", "l", "/", "g", "i", "n">> :> <<"^", "2", ".", "0">> @@ <<"d", "r", "u", "p", "a", "l", "/", "n", "o", "n", "e", "x", "i", "s", "t", "e", "n", "t">> :> <<"^", "1", ".", "0">> }

InitManifest ==
    /\ pc = "start"
    /\ impl \in {"regex", "string"}
    /\ VersionIdle
    /\ FetchIdle
    /\ PackagesIdle
    /\ ClientIdle
    /\ LoadIdle
    /\ LaterIdle
    /\ manifest \in Manifests
    /\ updates \in VersionMaps
    /\ cjRaw = EmptyMap
    /\ cjRequire = NilRequire
    /\ output = <<>>

\* json.Unmarshal(input, &c): ComposerJSON.UnmarshalJSON of composer.go
UnmarshalJSONStep ==
    /\ pc = "start"
    /\ impl = "regex"
    /\ cjRaw' = fieldBag(manifest)
    /\ cjRequire' = decodeRequire(cjRaw')
    /\ pc' = "decoded"
    /\ UNCHANGED <<laterVars, versionVars, fetchVars, packageVars, clientVars, loadVars, manifest, updates, output>>

\* ParseComposerJSON of drupalupdate.go: Raw keeps the bytes of the document
ParseComposerJSONStep ==
    /\ pc = "start"
    /\ impl = "string"
    /\ cjRaw' = fieldBag(manifest)
    /\ cjRequire' = decodeRequire(cjRaw')
    /\ pc' = "decoded"
    /\ UNCHANGED <<laterVars, versionVars, fetchVars, packageVars, clientVars, loadVars, manifest, updates, output>>

\* c.Require[name] = version by a caller, for a name that is a dependency
SetConstraintStep ==
    /\ pc = "decoded"
    /\ \E name \in DOMAIN cjRequire.entries, version \in Constraints :
          /\ version # cjRequire.entries[name]
          /\ cjRequire' = [cjRequire EXCEPT !.entries[name] = version]
    /\ pc' = "changed"
    /\ UNCHANGED <<laterVars, versionVars, fetchVars, packageVars, clientVars, loadVars, manifest, updates, cjRaw, output>>

\* json.Marshal(c): ComposerJSON.MarshalJSON of composer.go
MarshalJSONStep ==
    /\ pc \in {"decoded", "changed"}
    /\ impl = "regex"
    /\ output' = MarshalJSON(cjRaw, cjRequire)
    /\ pc' = "encoded"
    /\ UNCHANGED <<laterVars, versionVars, fetchVars, packageVars, clientVars, loadVars, manifest, updates, cjRaw, cjRequire>>

\* MarshalComposerJSON(c) of drupalupdate.go
MarshalComposerJSONStep ==
    /\ pc \in {"decoded", "changed"}
    /\ impl = "string"
    /\ output' = MarshalComposerJSON(cjRaw, cjRequire)
    /\ pc' = "encoded"
    /\ UNCHANGED <<laterVars, versionVars, fetchVars, packageVars, clientVars, loadVars, manifest, updates, cjRaw, cjRequire>>

\* Server.handleUpdate of the later revision: the request is decoded, the
\* versions are applied and the manifest is written as the response
handleUpdate ==
    /\ pc = "start"
    /\ impl = "regex"
    /\ cjRaw' = fieldBag(manifest)
    /\ cjRequire' = applyVersions(decodeRequire(cjRaw'), updates)
    /\ output' = MarshalJSON(cjRaw', cjRequire')
    /\ pc' = "updated"
    /\ UNCHANGED <<laterVars, versionVars, fetchVars, packageVars, clientVars, loadVars, manifest, updates>>

\* Server.handleUpdate of the earlier revision
handleUpdateLegacy ==
    /\ pc = "start"
    /\ impl = "string"
    /\ cjRaw' = fieldBag(manifest)
    /\ cjRequire' = applyVersions(decodeRequire(cjRaw'), updates)
    /\ output' = MarshalComposerJSON(cjRaw', cjRequire')
    /\ pc' = "updated"
    /\ UNCHANGED <<laterVars, versionVars, fetchVars, packageVars, clientVars, loadVars, manifest, updates>>

NextManifest ==
    \/ UnmarshalJSONStep
    \/ ParseComposerJSONStep
    \/ SetConstraintStep
    \/ MarshalJSONStep
    \/ MarshalComposerJSONStep
    \/ handleUpdate
    \/ handleUpdateLegacy

SpecManifest == InitManifest /\ [][NextManifest]_vars

\* ---- claims about the manifest ----

\* the top-level fields other than the dependency map: key to denoted value
OtherFields(fields) ==
    [key \in Range(KeysOf(fields)) \ {RequireKey} |-> JsonValue(fieldBag(fields)[key])]

\* the keys of the top-level fields other than the dependency map, in order
OtherKeys(fields) == SelectSeq(KeysOf(fields), LAMBDA key : key # RequireKey)

\* the dependency map of a document: no entry when the member is absent or null
RequireOf(fields) ==
    IF RequireKey \in Range(KeysOf(fields)) /\ fieldBag(fields)[RequireKey].kind = "map"
    THEN fieldBag(fields)[RequireKey].entries
    ELSE EmptyMap

\* C15: decoding a valid manifest and encoding the result, with the dependency
\* map unmodified or with some constraints changed, yields a document with
\* exactly the top-level fields of the input other than the dependency map,
\* each with an unchanged value.
C15_OtherFieldsUnchanged ==
    pc = "encoded" => OtherFields(output) = OtherFields(manifest)

\* C16: a manifest without a dependency map, decoded and encoded again, is a
\* document without a dependency-map field.
C16_AbsentRequireOmitted ==
    (pc = "encoded" /\ RequireKey \notin Range(KeysOf(manifest)))
        => RequireKey \notin Range(KeysOf(output))

\* C17 as stated: the encoded manifest has the top-level fields other than the
\* dependency map in the relative order they had in the input document.
C17_KeyOrderPreserved ==
    pc = "encoded" => OtherKeys(output) = OtherKeys(manifest)

\* C17: the encoded manifest has the top-level fields of the input other than
\* the dependency map, each once, in ascending order of their keys, whatever
\* their order in the input document.
C17_KeysAscending ==
    pc = "encoded" =>
        LET keys == OtherKeys(output)
        IN  /\ Range(keys) = Range(OtherKeys(manifest))
            /\ \A i, j \in 1..Len(keys) : i < j => StringLess(keys[i], keys[j])

C17_Witness ==
    /\ pc = "encoded"
    /\ impl = "regex"
    /\ Len(OtherKeys(manifest)) >= 2
    /\ OtherKeys(output) # OtherKeys(manifest)

\* C18: the manifest the update operation returns has exactly the dependency
\* names of the input manifest: a name of the version map carries the version
\* of the map, every other name keeps its constraint, and a name of the version
\* map that is no dependency is not added.
C18_UpdateKeepsNames ==
    pc = "updated" =>
        LET before == RequireOf(manifest)
            after == RequireOf(output)
        IN  /\ DOMAIN after = DOMAIN before
            /\ \A name \in DOMAIN before :
                  after[name] = IF name \in DOMAIN updates THEN updates[name]
                                ELSE before[name]

C18_Witness ==
    /\ pc = "updated"
    /\ impl = "regex"
    /\ <<"d", "r", "u", "p", "a", "l", "/", "n", "o", "n", "e", "x", "i", "s", "t", "e", "n", "t">> \in DOMAIN updates
    /\ <<"d", "r", "u", "s", "h", "/", "d", "r", "u", "s", "h">> \in DOMAIN RequireOf(manifest)
    /\ <<"d", "r", "u", "p", "a", "l", "/", "g", "i", "n">> \in DOMAIN RequireOf(output)
    /\ RequireOf(output)[<<"d", "r", "u", "p", "a", "l", "/", "g", "i", "n">>] = <<"^", "2", ".", "0">>
    /\ RequireOf(manifest)[<<"d", "r", "u", "p", "a", "l", "/", "g", "i", "n">>] = <<"8", ".", "x", "-", "1", ".", "5">>

(***************************************************************************)
(* A fetch by package name (Client.FetchReleases)                          *)
(***************************************************************************)
\* the longest generated package name
MaxNameLen == 4

\* the characters generated package names are made of: a lower-case letter,
\* a digit, a separator, the slash, an upper-case letter and a space
NameAlphabet == {"a", "1", "-", "/", "A", " "}

\* package names of manifests and of the tests
KnownNames ==
    { <<"d", "r", "u", "p", "a", "l", "/", "c", "o", "r", "e", "-", "v", "e", "n", "d", "o", "r", "-", "h", "a", "r", "d", "e", "n", "i", "n", "g">>,
      <<"d", "r", "u", "p", "a", "l", "/", "c", "o", "r", "e">>, <<"d", "r", "u", "p", "a", "l", "/", "c", "o", "r", "e", "-", "r", "e", "c", "o", "m", "m", "e", "n", "d", "e", "d">>, <<"d", "r", "u", "p", "a", "l", "/", "g", "i", "n">>,
      <<"d", "r", "u", "p", "a", "l", "/", "a", "d", "m", "i", "n", "_", "t", "o", "o", "l", "b", "a", "r">>, <<"d", "r", "u", "s", "h", "/", "d", "r", "u", "s", "h">>, <<"p", "h", "p">>, <<"e", "x", "t", "-", "j", "s", "o", "n">>,
      <<"D", "r", "u", "p", "a", "l", "/", "g", "i", "n">>, <<"d", "r", "u", "p", "a", "l", "/", "g", "i", "n", "/", "x">>, <<"d", "r", "u", "p", "a", "l", "/", "/", "g", "i", "n">>, <<"d", "r", "u", "p", "a", "l", "/">> }

\* the names handed to FetchReleases, the empty name among them
RequestedNames == SeqsUpTo(NameAlphabet, MaxNameLen) \cup KnownNames

\* the project of the CMS registry that all core packages are fetched from
CoreProject == <<"d", "r", "u", "p", "a", "l">>

InitClient ==
    /\ pc = "start"
    /\ impl = "regex"
    /\ VersionIdle
    /\ registry = "none"
    /\ httpOK \in BOOLEAN
    /\ supported = <<>>
    /\ releases \in {Catalog(2, 0)}
    /\ versions \in SeqsUpTo(PackagistVersions, 1)
    /\ branches = <<>>
    /\ selected = <<>>
    /\ result = <<>>
    /\ err = FALSE
    /\ PackagesIdle
    /\ ManifestIdle
    /\ LoadIdle
    /\ LaterIdle
    /\ pkgName \in RequestedNames
    /\ requests = <<>>
    /\ fetchErr = NoError

\* Client.FetchReleases(ctx, pkg): the name is checked, then the request goes
\* to the project drupal for a core package, to the module for another package
\* of the vendor drupal, and to the general registry for any other package
ClientFetchReleases ==
    /\ pc = "start"
    /\ impl = "regex"
    /\ pc' = "fetched"
    /\ fetchErr' = checkPackageName(pkgName)
    /\ IF fetchErr' # NoError
       THEN /\ err' = TRUE
            /\ UNCHANGED <<requests, registry, branches, selected, result>>
       ELSE LET module == drupalModuleName(pkgName)
            IN  /\ registry' = IF module.ok THEN "drupal" ELSE "packagist"
                /\ requests' = Append(requests,
                      [registry |-> registry',
                       project |-> IF ~module.ok THEN pkgName
                                   ELSE IF isCorePackage(module.name) THEN CoreProject
                                   ELSE module.name])
                /\ err' = ~httpOK
                /\ branches' = IF module.ok /\ httpOK
                               THEN ParseSupportedBranches(supported) ELSE <<>>
                /\ selected' = IF ~httpOK THEN <<>>
                               ELSE IF module.ok THEN latestPerBranch(releases, branches')
                               ELSE latestStablePerPackagistMajor(impl, pkgName, versions)
                /\ result' = IF ~httpOK THEN <<>>
                             ELSE IF module.ok THEN sortReleases(impl, withPins(impl, selected'))
                             ELSE sortReleases(impl, selected')
    /\ UNCHANGED <<laterVars, versionVars, packageVars, manifestVars, loadVars, pkgName, httpOK,
                   supported, releases, versions>>

NextClient == ClientFetchReleases

SpecClient == InitClient /\ [][NextClient]_vars

\* C19: for every package name that does not match the vendor/package name
\* pattern, the empty name among them, FetchReleases returns an error and
\* issues no HTTP request to either registry.
C19_InvalidNameNoRequest ==
    (pc = "fetched" /\ ~packageNameRegex(pkgName)) =>
        /\ err
        /\ fetchErr # NoError
        /\ requests = <<>>
        /\ result = <<>>

C19_Witness ==
    /\ pc = "fetched"
    /\ pkgName = <<"a", "/", "-", "a">>
    /\ httpOK
    /\ err
    /\ requests = <<>>

\* a valid name is fetched with one request
C19_WitnessValid ==
    /\ pc = "fetched"
    /\ pkgName = <<"d", "r", "u", "p", "a", "l", "/", "c", "o", "r", "e", "-", "r", "e", "c", "o", "m", "m", "e", "n", "d", "e", "d">>
    /\ Len(requests) = 1
    /\ requests[1].project = CoreProject

(***************************************************************************)
(* Loading the releases of several packages (loadComposer of the frontend, *)
(* main of the command line)                                               *)
(***************************************************************************)
\* the largest number of packages of one load
MaxPackages == 3

\* the packages of a load, in list order; the first one stands for the core
\* state of the frontend, whose releases are fetched once
LoadNames ==
    << <<"d", "r", "u", "p", "a", "l", "/", "c", "o", "r", "e">>, <<"d", "r", "u", "p", "a", "l", "/", "g", "i", "n">>, <<"d", "r", "u", "s", "h", "/", "d", "r", "u", "s", "h">>,
       <<"d", "r", "u", "p", "a", "l", "/", "t", "o", "k", "e", "n">>, <<"c", "o", "m", "p", "o", "s", "e", "r", "/", "i", "n", "s", "t", "a", "l", "l", "e", "r", "s">> >>

\* the programs that load releases: the frontend and the command line
Programs == {"app", "cli"}

\* the release lists a fetch can return
ReleaseLists == { <<>>, << <<"2", ".", "0", ".", "0">> >>, << <<"2", ".", "0", ".", "0">>, <<"1", ".", "0", ".", "0">> >> }

\* the outcomes of one fetch: a failure (a rejected promise, a returned
\* error), an answer without a release list, or an answer with a list
FetchOutcomes ==
    { [ok |-> FALSE, isNull |-> TRUE, releases |-> <<>>],
      [ok |-> TRUE, isNull |-> TRUE, releases |-> <<>>] }
    \cup { [ok |-> TRUE, isNull |-> FALSE, releases |-> rs] : rs \in ReleaseLists }

\* an answer without a release list counts as the empty list
noReleases(data) == <<>>

\* data.releases || [] of loadComposer; the nil slice of main
releasesOrEmpty(data) == IF data.isNull THEN <<>> ELSE data.releases

InitLoad ==
    /\ pc = "start"
    /\ impl \in Programs
    /\ VersionIdle
    /\ FetchIdle
    /\ PackagesIdle
    /\ ManifestIdle
    /\ ClientIdle
    /\ LaterIdle
    /\ loadPkgs \in {Take(LoadNames, n) : n \in 1..MaxPackages}
    /\ answers \in [Range(loadPkgs) -> FetchOutcomes]
    /\ settled = {}
    /\ pkgReleases = EmptyMap

\* loadComposer up to await Promise.all(fetches): every package starts with
\* an empty release list and one fetch per package is under way
loadComposer ==
    /\ pc = "start"
    /\ impl = "app"
    /\ pkgReleases' = [p \in Range(loadPkgs) |-> <<>>]
    /\ pc' = "fetching"
    /\ UNCHANGED <<laterVars, versionVars, fetchVars, packageVars, manifestVars, clientVars,
                   loadPkgs, answers, settled>>

\* the fetch of package p settles and its async function goes on: the
\* releases of the answer are kept, or the empty list in the catch block
fetchSettles(p) ==
    /\ pc = "fetching"
    /\ impl = "app"
    /\ p \in Range(loadPkgs) \ settled
    /\ pkgReleases' = [pkgReleases EXCEPT ![p] =
                          IF answers[p].ok THEN releasesOrEmpty(answers[p]) ELSE <<>>]
    /\ settled' = settled \cup {p}
    /\ UNCHANGED <<pc, laterVars, versionVars, fetchVars, packageVars, manifestVars, clientVars,
                   loadPkgs, answers>>

\* loadComposer after await Promise.all(fetches): the table is rendered and
\* the status is Ready
loadComposerResumes ==
    /\ pc = "fetching"
    /\ impl = "app"
    /\ settled = Range(loadPkgs)
    /\ pc' = "ready"
    /\ UNCHANGED <<laterVars, versionVars, fetchVars, packageVars, manifestVars, clientVars, loadVars>>

\* one round of the package loops of main: the next package of the list is
\* fetched; on an error the loop continues with no releases for it
mainLoopStep ==
    /\ pc \in {"start", "fetching"}
    /\ impl = "cli"
    /\ Cardinality(settled) < Len(loadPkgs)
    /\ LET p == loadPkgs[Cardinality(settled) + 1]
           before == IF pc = "start" THEN [q \in Range(loadPkgs) |-> <<>>] ELSE pkgReleases
       IN  /\ pkgReleases' = [before EXCEPT ![p] =
                                 IF answers[p].ok THEN releasesOrEmpty(answers[p]) ELSE <<>>]
           /\ settled' = settled \cup {p}
    /\ pc' = "fetching"
    /\ UNCHANGED <<laterVars, versionVars, fetchVars, packageVars, manifestVars, clientVars,
                   loadPkgs, answers>>

\* main after the package loops
mainLoopEnds ==
    /\ pc = "fetching"
    /\ impl = "cli"
    /\ Cardinality(settled) = Len(loadPkgs)
    /\ pc' = "ready"
    /\ UNCHANGED <<laterVars, versionVars, fetchVars, packageVars, manifestVars, clientVars, loadVars>>

NextLoad ==
    \/ loadComposer
    \/ \E p \in Range(LoadNames) : fetchSettles(p)
    \/ loadComposerResumes
    \/ mainLoopStep
    \/ mainLoopEnds

SpecLoad == InitLoad /\ [][NextLoad]_vars

\* every fetch is answered or fails, and the continuation of a settled fetch
\* is run: a step that can be taken is taken in the end
SpecLoadFair == SpecLoad /\ WF_vars(NextLoad)

\* the release list package p ends with
ExpectedReleases(p) ==
    IF answers[p].ok /\ ~answers[p].isNull THEN answers[p].releases ELSE <<>>

\* C20: when the releases of several packages are fetched, whichever fetches
\* fail and in whichever order the fetches complete, a package whose fetch
\* succeeded ends with the releases its own fetch returned, a package whose
\* fetch failed ends with the empty list, and the load of all packages
\* completes.
C20_FailuresIsolated ==
    /\ [](\A p \in settled : pkgReleases[p] = ExpectedReleases(p))
    /\ [](pc = "ready" => settled = Range(loadPkgs))
    /\ (pc = "fetching" ~> pc = "ready")

C20_Witness ==
    /\ pc = "ready"
    /\ impl = "app"
    /\ Len(loadPkgs) = MaxPackages
    /\ ~answers[loadPkgs[1]].ok
    /\ answers[loadPkgs[2]].ok
    /\ Len(pkgReleases[loadPkgs[2]]) = 2
    /\ Len(pkgReleases[loadPkgs[3]]) = 1
    /\ pkgReleases[loadPkgs[1]] = <<>>

(***************************************************************************)
(* The server: decoding the manifest of a request (handleParse,            *)
(* handleUpdate) and encoding a ComposerJSON value                         *)
(***************************************************************************)
\* a "require" member that is an object with a member that is no string:
\* entries are its string members, member is the name of the other one
JBadMap(kind, entries, member) ==
    [JMap(entries) EXCEPT !.kind = kind, !.text = member]

\* a JSON array
JArray == [JMap(EmptyMap) EXCEPT !.kind = "array"]

\* the result of decoding: err is the empty string when decoding succeeds
Decoded(e, isNil, bag, req) == [err |-> e, rawIsNil |-> isNil, raw |-> bag, require |-> req]

errMustBeMap == "composerJSON must be a map"

errRequireKey == "failed to unmarshal require key"

\* json.Unmarshal(require, &c.Require) for a map[string]string: null leaves
\* the map nil, an object is stored member by member, a null member is stored
\* as the empty string, and any other value is a type error
unmarshalRequire(v) ==
    IF v.kind = "null" THEN [err |-> FALSE, require |-> NilRequire]
    ELSE IF v.kind = "map" THEN [err |-> FALSE, require |-> [isNil |-> FALSE, entries |-> v.entries]]
    ELSE IF v.kind = "mapWithNull"
    THEN [err |-> FALSE,
          require |-> [isNil |-> FALSE, entries |-> WithKey(v.entries, v.text, <<>>)]]
    ELSE [err |-> TRUE, require |-> NilRequire]

\* ComposerJSON.UnmarshalJSON of composer.go on any JSON value: null leaves
\* the field bag nil and is no error, a value that is no object is an error
UnmarshalJSON(doc) ==
    IF doc.kind = "null" THEN Decoded("", TRUE, EmptyMap, NilRequire)
    ELSE IF doc.kind # "object" THEN Decoded(errMustBeMap, TRUE, EmptyMap, NilRequire)
    ELSE LET bag == fieldBag(doc.fields)
         IN  IF RequireKey \notin DOMAIN bag THEN Decoded("", FALSE, bag, NilRequire)
             ELSE LET r == unmarshalRequire(bag[RequireKey])
                  IN  IF r.err THEN Decoded(errRequireKey, FALSE, bag, NilRequire)
                      ELSE Decoded("", FALSE, bag, r.require)

\* how ComposerJSON.MarshalJSON ends: maps.Clone of the nil map is the nil
\* map, and the assignment of "require" to a nil map panics; deleting from a
\* nil map does nothing; a raw message that is no JSON is an error
marshalOutcome(isNil, rawValid, req) ==
    IF ~req.isNil /\ isNil THEN "panic"
    ELSE IF ~rawValid THEN "error"
    ELSE "bytes"

\* the "require" members of request manifests
ServerRequireValues ==
    { JNull, JMap(EmptyMap),
      JMap(<<"d", "r", "u", "p", "a", "l", "/", "c", "o", "r", "e">> :> <<"^", "1", "0">> @@ <<"d", "r", "u", "p", "a", "l", "/", "g", "i", "n">> :> <<"^", "1", ".", "0">>),
      JMap(<<"d", "r", "u", "s", "h", "/", "d", "r", "u", "s", "h">> :> <<"^", "1", "2">> @@ <<"d", "r", "u", "p", "a", "l", "/", "g", "i", "n">> :> <<"^", "1", ".", "0">>),
      JBadMap("mapWithNull", <<"d", "r", "u", "s", "h", "/", "d", "r", "u", "s", "h">> :> <<"^", "1", "2">>, <<"d", "r", "u", "p", "a", "l", "/", "g", "i", "n">>),
      JBadMap("mapWithNumber", <<"d", "r", "u", "s", "h", "/", "d", "r", "u", "s", "h">> :> <<"^", "1", "2">>, <<"d", "r", "u", "p", "a", "l", "/", "g", "i", "n">>),
      JArray, JString(<<"x">>, FALSE), JNumber(FALSE, 1, FALSE, FALSE) }

\* the top-level fields of request manifests that are objects
ServerFields ==
    LET name == [key |-> <<"n", "a", "m", "e">>, value |-> JString(<<"a">>, FALSE)]
    IN  { <<>>, <<name>> }
        \cup UNION { { << [key |-> RequireKey, value |-> r] >>,
                       << name, [key |-> RequireKey, value |-> r] >>,
                       << [key |-> RequireKey, value |-> r], name >> } :
                     r \in ServerRequireValues }

\* the composer_json members of request bodies: objects and other values
ServerDocs ==
    { [kind |-> k, fields |-> <<>>] : k \in {"null", "array", "string", "number"} }
    \cup { [kind |-> "object", fields |-> f] : f \in ServerFields }

\* the ComposerJSON values a caller constructs without decoding
ConstructedRequires ==
    { NilRequire, [isNil |-> FALSE, entries |-> EmptyMap],
      [isNil |-> FALSE, entries |-> <<"d", "r", "u", "p", "a", "l", "/", "g", "i", "n">> :> <<"^", "1", ".", "0">>] }

InitServer ==
    /\ pc = "start"
    /\ impl = "regex"
    /\ VersionIdle
    /\ FetchIdle
    /\ PackagesIdle
    /\ ClientIdle
    /\ LoadIdle
    /\ manifest = <<>>
    /\ updates \in VersionMaps
    /\ cjRaw = EmptyMap
    /\ cjRequire = NilRequire
    /\ output = <<>>
    /\ reqDoc \in ServerDocs
    /\ httpStatus = 0
    /\ rawIsNil = TRUE
    /\ outcome = "none"
    /\ FrontIdle

\* Server.handleParse: the manifest is decoded with the request; a decoding
\* error is answered with 400, otherwise the three package lists with 200
handleParse ==
    /\ pc = "start"
    /\ LET d == UnmarshalJSON(reqDoc)
       IN  /\ cjRaw' = d.raw
           /\ rawIsNil' = d.rawIsNil
           /\ cjRequire' = d.require
           /\ IF d.err # ""
              THEN /\ httpStatus' = 400
                   /\ UNCHANGED <<listed, corePkgs, drupalPkgs, composerPkgs>>
              ELSE /\ httpStatus' = 200
                   /\ listed' = {"core", "drupal", "composer"}
                   /\ corePkgs' = CorePackages(impl, d.require.entries)
                   /\ drupalPkgs' = DrupalPackages(impl, d.require.entries)
                   /\ composerPkgs' = ComposerPackages(impl, d.require.entries)
    /\ pc' = "parsed"
    /\ UNCHANGED <<frontVars, versionVars, fetchVars, clientVars, loadVars, require,
                   manifest, updates, output, reqDoc, outcome>>

\* Server.handleUpdate on any request manifest: a decoding error is answered
\* with 400, otherwise the versions are applied and the manifest is written
handleUpdateRequest ==
    /\ pc = "start"
    /\ LET d == UnmarshalJSON(reqDoc)
           req == applyVersions(d.require, updates)
       IN  /\ cjRaw' = d.raw
           /\ rawIsNil' = d.rawIsNil
           /\ IF d.err # ""
              THEN /\ httpStatus' = 400
                   /\ cjRequire' = d.require
                   /\ UNCHANGED <<output, outcome>>
              ELSE /\ httpStatus' = 200
                   /\ cjRequire' = req
                   /\ outcome' = marshalOutcome(d.rawIsNil, TRUE, req)
                   /\ output' = IF d.rawIsNil THEN <<>> ELSE MarshalJSON(d.raw, req)
    /\ pc' = "updated"
    /\ UNCHANGED <<frontVars, versionVars, fetchVars, packageVars, clientVars, loadVars,
                   manifest, updates, reqDoc>>

\* json.Marshal of a ComposerJSON value a caller has constructed or changed:
\* Raw is nil, empty or holds a message, Require is nil or a map
MarshalConstructed ==
    /\ pc = "start"
    /\ \E isNil \in BOOLEAN, rawValid \in BOOLEAN, req \in ConstructedRequires :
          /\ isNil => rawValid
          /\ rawIsNil' = isNil
          /\ cjRequire' = req
          /\ outcome' = marshalOutcome(isNil, rawValid, req)
          /\ output' = IF outcome' = "bytes" /\ ~isNil THEN MarshalJSON(EmptyMap, req)
                       ELSE <<>>
    /\ pc' = "marshalled"
    /\ UNCHANGED <<frontVars, versionVars, fetchVars, packageVars, clientVars, loadVars,
                   manifest, updates, cjRaw, reqDoc, httpStatus>>

NextServer ==
    \/ handleParse
    \/ handleUpdateRequest
    \/ MarshalConstructed

SpecServer == InitServer /\ [][NextServer]_vars

\* the request manifest is a JSON object whose dependency map, when it has
\* one that is not null, maps strings to strings
ValidManifest(doc) ==
    /\ doc.kind = "object"
    /\ RequireKey \in Range(KeysOf(doc.fields)) =>
          fieldBag(doc.fields)[RequireKey].kind \in {"map", "null"}

\* C21: when the manifest bytes encode no JSON object, or the dependency-map
\* field is no mapping from strings to strings, decoding returns an error and
\* parse and update are rejected as a whole: no package list and no updated
\* manifest is produced.
C21_InvalidManifestRejected ==
    (pc \in {"parsed", "updated"} /\ ~ValidManifest(reqDoc)) =>
        /\ httpStatus = 400
        /\ listed = {}
        /\ output = <<>>

\* C28: encoding a manifest value never aborts: MarshalJSON returns the
\* encoded bytes or an error value, also for a value that was never decoded
\* and has a dependency map.
C28_MarshalNeverAborts ==
    pc \in {"marshalled", "updated"} => outcome # "panic"

(***************************************************************************)
(* Routing a fetch to a registry (Client.FetchReleases of the later        *)
(* revision, Client.FetchReleasesForPackage of drupalupdate.go)            *)
(***************************************************************************)
InitRoute ==
    /\ pc = "start"
    /\ impl \in {"regex", "string"}
    /\ VersionIdle
    /\ registry = "none"
    /\ httpOK \in BOOLEAN
    /\ supported = <<>>
    /\ releases \in {Catalog(2, 0)}
    /\ versions \in SeqsUpTo(PackagistVersions, 1)
    /\ branches = <<>>
    /\ selected = <<>>
    /\ result = <<>>
    /\ err = FALSE
    /\ PackagesIdle
    /\ ManifestIdle
    /\ LoadIdle
    /\ LaterIdle
    /\ pkgName \in RequestedNames
    /\ requests = <<>>
    /\ fetchErr = NoError

\* Client.FetchReleasesForPackage of drupalupdate.go: the name is not
\* checked; the request goes to the project drupal when IsCorePackage holds
FetchReleasesForPackage ==
    /\ pc = "start"
    /\ impl = "string"
    /\ pc' = "fetched"
    /\ LET module == drupalModuleName(pkgName)
       IN  /\ registry' = IF module.ok THEN "drupal" ELSE "packagist"
           /\ requests' = Append(requests,
                 [registry |-> registry',
                  project |-> IF ~module.ok THEN pkgName
                              ELSE IF IsCorePackage(module.name) THEN CoreProject
                              ELSE module.name])
           /\ err' = ~httpOK
           /\ branches' = IF module.ok /\ httpOK
                          THEN ParseSupportedBranches(supported) ELSE <<>>
           /\ selected' = IF ~httpOK THEN <<>>
                          ELSE IF module.ok THEN LatestPerBranch(releases, branches')
                          ELSE latestStablePerPackagistMajor(impl, pkgName, versions)
           /\ result' = IF ~httpOK THEN <<>>
                        ELSE IF module.ok
                        THEN SortReleasesDescending(withPins(impl, selected'))
                        ELSE SortReleasesDescending(selected')
    /\ UNCHANGED <<laterVars, versionVars, packageVars, manifestVars, loadVars, pkgName,
                   fetchErr, httpOK, supported, releases, versions>>

NextRoute ==
    \/ ClientFetchReleases
    \/ FetchReleasesForPackage

SpecRoute == InitRoute /\ [][NextRoute]_vars

\* the one request the fetch of a valid name makes
ExpectedRequest(name) ==
    LET module == Drop(name, Len(DrupalVendor))
    IN  IF ~HasPrefix(name, DrupalVendor)
        THEN [registry |-> "packagist", project |-> name]
        ELSE IF module = <<"c", "o", "r", "e">> \/ HasPrefix(module, <<"c", "o", "r", "e", "-">>)
        THEN [registry |-> "drupal", project |-> <<"d", "r", "u", "p", "a", "l">>]
        ELSE [registry |-> "drupal", project |-> module]

\* C22: a release fetch for a valid package name queries exactly one
\* registry: the project drupal of the CMS registry for a core package
\* (drupal/core or drupal/core-*), the CMS registry under the module slug for
\* any other drupal/* name, and the general registry under the full name for
\* any other name.
C22_OneRequestRouted ==
    (pc = "fetched" /\ packageNameRegex(pkgName)) =>
        requests = << ExpectedRequest(pkgName) >>

(***************************************************************************)
(* The command line: main and selectVersion                                *)
(***************************************************************************)
\* the value of a sequence of decimal digits
RECURSIVE decimalValue(_)
decimalValue(tok) ==
    IF tok = <<>> THEN 0
    ELSE 10 * decimalValue(SubSeq(tok, 1, Len(tok) - 1)) + DigitVal(tok[Len(tok)])

\* ss.scanNumber: the longest prefix made of decimal digits and underscores
RECURSIVE scanNumber(_)
scanNumber(s) ==
    IF s = <<>> THEN <<>>
    ELSE IF IsDigit(Head(s)) \/ Head(s) = "_" THEN <<Head(s)>> \o scanNumber(Tail(s))
    ELSE <<>>

\* fmt.Sscanf(input, "%d", &choice): an optional sign, then the number token,
\* which strconv.ParseInt reads in base 10 (an underscore is an error there);
\* what follows the token is not looked at
Sscanf(input) ==
    LET signed == input # <<>> /\ Head(input) \in {"+", "-"}
        tok == scanNumber(IF signed THEN Tail(input) ELSE input)
    IN  IF tok = <<>> \/ "_" \in Range(tok) THEN [ok |-> FALSE, choice |-> 0]
        ELSE IF signed /\ Head(input) = "-"
        THEN [ok |-> TRUE, choice |-> 0 - decimalValue(tok)]
        ELSE [ok |-> TRUE, choice |-> decimalValue(tok)]

\* the input that keeps the current version
isSkipInput(input) == input \in {<<"s">>, <<"S">>, <<>>}

\* a range test that leaves out the last release
choiceBelowLast(choice, n) == choice >= 1 /\ choice < n

\* choice >= 1 && choice <= len(releases)
choiceInRange(choice, n) == choice >= 1 /\ choice <= n

\* a test that takes every pin for a change
anyPinChanges(selectedPin, current) == selectedPin # <<>>

\* newVersion != "" && newVersion != pkg.Version
selectionChanges(selectedPin, current) == selectedPin # <<>> /\ selectedPin # current

\* the most lines standard input holds
MaxLines == 2

\* the lines typed at a prompt
PromptLines ==
    { <<>>, <<"s">>, <<"S">>, <<" ">>, <<"1">>, <<"2">>, <<"3">>, <<"0">>, <<"x">>, <<"2", "x">>,
      <<"+", "1">>, <<"-", "1">>, <<" ", "2", " ">>, <<"1", "_">>, <<"1", "2">>, <<"s", "1">> }

\* the lines typed in a run of main
CliLines == { <<"s">>, <<"1">>, <<"2">>, <<"x">> }

\* the pins of the release lists a fetch returns for a prompt
OfferedPins == { << <<"^", "1", "1">> >>, << <<"^", "1", "1">>, <<"^", "1", "0">> >> }

\* what a fetch returns to main: an error, no release, or a release list
CliAnswers ==
    { [ok |-> FALSE, pins |-> <<>>], [ok |-> TRUE, pins |-> <<>>] }
    \cup { [ok |-> TRUE, pins |-> ps] : ps \in OfferedPins }

\* the packages of the manifest main reads
CliNames == { <<"d", "r", "u", "p", "a", "l", "/", "c", "o", "r", "e">>, <<"d", "r", "u", "p", "a", "l", "/", "c", "o", "r", "e", "-", "r", "e", "c", "o", "m", "m", "e", "n", "d", "e", "d">>, <<"d", "r", "u", "p", "a", "l", "/", "g", "i", "n">>, <<"d", "r", "u", "s", "h", "/", "d", "r", "u", "s", "h">> }

\* the manifests main reads: at most MaxPackages dependencies
CliManifests ==
    UNION { [names -> { <<"^", "1", "1">>, <<"^", "1", "0">> }] :
              names \in {ns \in SUBSET CliNames : Cardinality(ns) <= MaxPackages} }

DrupalCore == <<"D", "r", "u", "p", "a", "l", " ", "C", "o", "r", "e">>

\* main up to the core section: the manifest is read, nothing is fetched yet
InitCli ==
    /\ pc = "core"
    /\ impl = "regex"
    /\ VersionIdle
    /\ FetchIdle
    /\ PackagesIdle
    /\ ManifestIdle
    /\ ClientIdle
    /\ LoadIdle
    /\ ServerIdle
    /\ UiIdle
    /\ stdin \in SeqsUpTo(CliLines, MaxLines)
    /\ consumed = <<>>
    /\ shown = [name |-> <<>>, version |-> <<>>]
    /\ offered = <<>>
    /\ newVersion = <<>>
    /\ composerMap \in CliManifests
    /\ section = "core"
    /\ queue = <<>>
    /\ changed = FALSE
    /\ written = FALSE
    /\ prompted = <<>>

\* selectVersion entered with a release list that is not empty
InitPrompt ==
    /\ pc = "prompt"
    /\ impl = "regex"
    /\ VersionIdle
    /\ FetchIdle
    /\ PackagesIdle
    /\ ManifestIdle
    /\ ClientIdle
    /\ LoadIdle
    /\ ServerIdle
    /\ UiIdle
    /\ stdin \in SeqsUpTo(PromptLines, MaxLines)
    /\ consumed = <<>>
    /\ shown = [name |-> <<"d", "r", "u", "p", "a", "l", "/", "g", "i", "n">>, version |-> <<"^", "1", "0">>]
    /\ offered \in OfferedPins
    /\ newVersion = <<>>
    /\ composerMap = EmptyMap
    /\ section = "none"
    /\ queue = <<>>
    /\ changed = FALSE
    /\ written = FALSE
    /\ prompted = <<>>

\* one round of the loop of selectVersion: reader.ReadString returns the next
\* line, or what is left (nothing) with an error that is dropped at the end
\* of the input; the round returns or prompts again
selectVersion ==
    /\ pc = "prompt"
    /\ LET atEnd == stdin = <<>>
           line == IF atEnd THEN <<>> ELSE Head(stdin)
           input == TrimSpace(line)
           scanned == Sscanf(input)
           picks == scanned.ok /\ choiceInRange(scanned.choice, Len(offered))
           returned == IF isSkipInput(input) THEN <<>> ELSE offered[scanned.choice]
       IN  /\ stdin' = IF atEnd THEN stdin ELSE Tail(stdin)
           /\ consumed' = Append(consumed, [eof |-> atEnd, text |-> line])
           /\ IF isSkipInput(input) \/ picks
              THEN /\ newVersion' = returned
                   /\ prompted' = Append(prompted, [name |-> shown.name,
                                     version |-> shown.version, result |-> returned])
                   /\ pc' = "selected"
              ELSE /\ pc' = "prompt"
                   /\ UNCHANGED <<newVersion, prompted>>
    /\ UNCHANGED <<serverVars, uiVars, versionVars, fetchVars, packageVars, manifestVars, clientVars,
                   loadVars, shown, offered, composerMap, section, queue, changed, written>>

\* main: the core section up to the prompt. Without a core package, after a
\* failed fetch and after an empty release list main goes on to the modules
mainCore ==
    /\ pc = "core"
    /\ LET core == CorePackages(impl, composerMap)
       IN  \E answer \in CliAnswers :
              IF Len(core) > 0 /\ answer.ok /\ Len(answer.pins) > 0
              THEN /\ pc' = "prompt"
                   /\ shown' = [name |-> DrupalCore, version |-> core[1].Version]
                   /\ offered' = answer.pins
                   /\ consumed' = <<>>
                   /\ UNCHANGED <<section, queue>>
              ELSE /\ pc' = "packages"
                   /\ section' = "drupal"
                   /\ queue' = DrupalPackages(impl, composerMap)
                   /\ UNCHANGED <<shown, offered, consumed>>
    /\ UNCHANGED <<serverVars, uiVars, versionVars, fetchVars, packageVars, manifestVars, clientVars,
                   loadVars, stdin, newVersion, composerMap, changed, written, prompted>>

\* main: the core prompt has returned; a pin that is not empty and differs
\* from the version of the first core package is set for every core package
mainCoreSelected ==
    /\ pc = "selected"
    /\ section = "core"
    /\ LET core == CorePackages(impl, composerMap)
           names == {core[k].Name : k \in DOMAIN core}
           applies == selectionChanges(newVersion, core[1].Version)
       IN  /\ composerMap' = IF applies
                             THEN [n \in DOMAIN composerMap |->
                                     IF n \in names THEN newVersion ELSE composerMap[n]]
                             ELSE composerMap
           /\ changed' = (changed \/ applies)
           /\ queue' = DrupalPackages(impl, composerMap')
    /\ pc' = "packages"
    /\ section' = "drupal"
    /\ UNCHANGED <<serverVars, uiVars, versionVars, fetchVars, packageVars, manifestVars, clientVars,
                   loadVars, stdin, consumed, shown, offered, newVersion, written, prompted>>

\* main: the next package of the module or the other section is fetched; a
\* failed fetch and an empty release list go on to the next package
mainPackage ==
    /\ pc = "packages"
    /\ queue # <<>>
    /\ \E answer \in CliAnswers :
          IF answer.ok /\ Len(answer.pins) > 0
          THEN /\ pc' = "prompt"
               /\ shown' = [name |-> Head(queue).Name, version |-> Head(queue).Version]
               /\ offered' = answer.pins
               /\ consumed' = <<>>
               /\ UNCHANGED queue
          ELSE /\ pc' = "packages"
               /\ queue' = Tail(queue)
               /\ UNCHANGED <<shown, offered, consumed>>
    /\ UNCHANGED <<serverVars, uiVars, versionVars, fetchVars, packageVars, manifestVars, clientVars,
                   loadVars, stdin, newVersion, composerMap, section, changed, written,
                   prompted>>

\* main: the prompt of a package has returned
mainPackageSelected ==
    /\ pc = "selected"
    /\ section \in {"drupal", "composer"}
    /\ LET applies == selectionChanges(newVersion, Head(queue).Version)
       IN  /\ composerMap' = IF applies
                             THEN [composerMap EXCEPT ![Head(queue).Name] = newVersion]
                             ELSE composerMap
           /\ changed' = (changed \/ applies)
    /\ queue' = Tail(queue)
    /\ pc' = "packages"
    /\ UNCHANGED <<serverVars, uiVars, versionVars, fetchVars, packageVars, manifestVars, clientVars,
                   loadVars, stdin, consumed, shown, offered, newVersion, section, written,
                   prompted>>

\* main: the module section is over, the other packages are listed
mainComposerPackages ==
    /\ pc = "packages"
    /\ queue = <<>>
    /\ section = "drupal"
    /\ section' = "composer"
    /\ queue' = ComposerPackages(impl, composerMap)
    /\ UNCHANGED <<pc, serverVars, uiVars, versionVars, fetchVars, packageVars, manifestVars,
                   clientVars, loadVars, stdin, consumed, shown, offered, newVersion,
                   composerMap, changed, written, prompted>>

\* main: the last section is over; writeComposerJSON runs when changed is set
mainWrite ==
    /\ pc = "packages"
    /\ queue = <<>>
    /\ section = "composer"
    /\ written' = changed
    /\ pc' = "exit"
    /\ UNCHANGED <<serverVars, uiVars, versionVars, fetchVars, packageVars, manifestVars, clientVars,
                   loadVars, stdin, consumed, shown, offered, newVersion, composerMap,
                   section, queue, changed, prompted>>

NextPrompt == selectVersion

SpecPrompt == InitPrompt /\ [][NextPrompt]_vars

\* the loop of selectVersion goes on while the process runs
SpecPromptFair == SpecPrompt /\ WF_vars(selectVersion)

NextCli ==
    \/ mainCore
    \/ selectVersion
    \/ mainCoreSelected
    \/ mainPackage
    \/ mainPackageSelected
    \/ mainComposerPackages
    \/ mainWrite

SpecCli == InitCli /\ [][NextCli]_vars

\* the line enters the index i: after the surrounding blanks and an optional
\* plus sign it starts with a decimal number of value i
Entered(line, i) ==
    LET t == TrimSpace(line)
        u == IF t # <<>> /\ Head(t) = "+" THEN Tail(t) ELSE t
    IN  \E k \in 1..Len(u) :
           /\ \A j \in 1..k : u[j] \in Range(Digits)
           /\ decimalValue(SubSeq(u, 1, k)) = i
           /\ k < Len(u) => u[k + 1] \notin (Range(Digits) \cup {"_"})

\* the line names a release of the list
EntersListed(line) == \E i \in 1..Len(offered) : Entered(line, i)

\* the line, or the end of the input, asks to keep the current version
AsksSkip(read) == read.eof \/ TrimSpace(read.text) \in {<<"s">>, <<"S">>, <<>>}

\* C30: for every finite input and every release list that is not empty the
\* prompt returns; it returns the empty string or the pin of the release at
\* the entered index i, 1 <= i <= number of releases; every line read before
\* the one it returns on is neither, and the end of the input is a skip.
C30_PromptReturns ==
    /\ [](pc = "selected" =>
            LET last == consumed[Len(consumed)]
            IN  /\ \/ newVersion = <<>> /\ AsksSkip(last)
                   \/ \E i \in 1..Len(offered) :
                         Entered(last.text, i) /\ newVersion = offered[i]
                /\ \A k \in 1..(Len(consumed) - 1) :
                      ~AsksSkip(consumed[k]) /\ ~EntersListed(consumed[k].text)
                /\ last.eof => newVersion = <<>>)
    /\ [](pc = "prompt" =>
            \A k \in 1..Len(consumed) :
               ~AsksSkip(consumed[k]) /\ ~EntersListed(consumed[k].text))
    /\ <>(pc = "selected")

\* a line that is no choice was read, then the second release was picked
C30_Witness ==
    /\ pc = "selected"
    /\ section = "none"
    /\ Len(consumed) = 2
    /\ consumed[1].text = <<"3">>
    /\ newVersion = <<"^", "1", "0">>

\* the input ended during the prompt
C30_WitnessExhausted ==
    /\ pc = "selected"
    /\ section = "none"
    /\ consumed # <<>>
    /\ consumed[Len(consumed)].eof
    /\ Len(consumed) > 1

\* a prompt returned a pin that differs from the version it showed
SelectedOther ==
    \E k \in DOMAIN prompted :
       prompted[k].result # <<>> /\ prompted[k].result # prompted[k].version

C29_WitnessWritten ==
    /\ pc = "exit"
    /\ written
    /\ Len(prompted) > 1

\* the names of the core packages of a dependency map
CoreNames(c) == {n \in DOMAIN c : HasPrefix(n, <<"d", "r", "u", "p", "a", "l", "/", "c", "o", "r", "e">>) /\ (Len(n) = 11 \/ n[12] = "-")}

\* C24: once a pin P is selected at the core prompt, every core package of
\* the manifest has the constraint P, whatever its constraint was before.
C24_CorePinForAll ==
    (/\ section \in {"drupal", "composer"}
     /\ prompted # <<>>
     /\ prompted[1].name = DrupalCore
     /\ prompted[1].result # <<>>) =>
        \A n \in CoreNames(composerMap) : composerMap[n] = prompted[1].result

(***************************************************************************)
(* The user interface (frontend/app.js)                                    *)
(***************************************************************************)
\* the most loads of a manifest one run of the page starts
MaxLoads == 2

LoadIds == 1..MaxLoads

\* the packages of the manifests, in the order of their names
UiNames == <<"drupal/core", "drupal/core-recommended", "drupal/gin", "drush/drush">>

UiCoreNames == {"drupal/core", "drupal/core-recommended"}

UiDrupalNames == {"drupal/gin"}

UiComposerNames == {"drush/drush"}

\* the manifests of the files the user has: one with two core packages on
\* different constraints, one without a core package
UiFiles ==
    { ("drupal/core" :> "^1" @@ "drupal/core-recommended" :> "^2" @@ "drupal/gin" :> "^1"),
      ("drupal/gin" :> "^2" @@ "drush/drush" :> "^1") }

\* the textarea is empty (no manifest of the files is)
NoText == EmptyMap

\* the release pins a fetch is answered with; a failed fetch and an answer
\* without releases both leave the empty list
UiAnswers == { <<>>, <<"^1", "^2">> }

\* the key of the core row and of the releases of coreState
CoreKey == "core"

\* no release list was written
NoReleases == [from |-> 0, pins |-> <<>>]

\* a load that was not started
NoLoad == [phase |-> "none", manifest |-> EmptyMap, pending |-> {}, rejected |-> FALSE,
           during |-> {}]

\* the packages of m among names, as name and version, by name
RECURSIVE packagesOf(_, _, _)
packagesOf(m, names, order) ==
    IF order = <<>> THEN <<>>
    ELSE IF Head(order) \in names /\ Head(order) \in DOMAIN m
    THEN <<[name |-> Head(order), version |-> m[Head(order)]]>>
            \o packagesOf(m, names, Tail(order))
    ELSE packagesOf(m, names, Tail(order))

\* the answer of the server to parseComposer
parseComposer(m) ==
    [core_packages |-> packagesOf(m, UiCoreNames, UiNames),
     drupal_packages |-> packagesOf(m, UiDrupalNames, UiNames),
     composer_packages |-> packagesOf(m, UiComposerNames, UiNames)]

\* the answer of the server to updateComposer
updateComposer(m, vs) == [n \in DOMAIN m |-> IF n \in DOMAIN vs THEN vs[n] ELSE m[n]]

\* the three globals coreState, drupalPackages and composerPackages are
\* assigned together: to the objects a load made from its parse response
\* (owner is the load) or to null and two empty lists (owner is 0)
coreState(owner, ls) ==
    IF owner = 0 \/ parseComposer(ls[owner].manifest).core_packages = <<>>
    THEN [isNull |-> TRUE, packages |-> <<>>, version |-> ""]
    ELSE [isNull |-> FALSE,
          packages |-> parseComposer(ls[owner].manifest).core_packages,
          version |-> parseComposer(ls[owner].manifest).core_packages[1].version]

drupalPackages(owner, ls) ==
    IF owner = 0 THEN <<>> ELSE parseComposer(ls[owner].manifest).drupal_packages

composerPackages(owner, ls) ==
    IF owner = 0 THEN <<>> ELSE parseComposer(ls[owner].manifest).composer_packages

allPackages(owner, ls) == drupalPackages(owner, ls) \o composerPackages(owner, ls)

\* the keys of the release lists of the objects a load makes
objectKeys(m) ==
    (IF parseComposer(m).core_packages = <<>> THEN {} ELSE {CoreKey})
    \cup {n \in DOMAIN m : n \in UiDrupalNames \cup UiComposerNames}

\* a select lists the current version first, then the pins of the releases;
\* index is the option that is selected, 0 when none is
selectValue(row) == IF row.index = 0 THEN "" ELSE row.options[row.index]

\* the row has a select
hasSelect(d, key) == key \in DOMAIN d /\ d[key].options # <<>>

\* select.value = v: the first option with the value v is selected
indexOfValue(options, v) ==
    IF \E i \in DOMAIN options : options[i] = v
    THEN CHOOSE i \in DOMAIN options : options[i] = v /\ \A j \in 1..(i - 1) : options[j] # v
    ELSE 0

\* an indicator that is set whenever a select exists
dirtyWhenListed(d, owner, ls) ==
    \/ ~coreState(owner, ls).isNull /\ hasSelect(d, CoreKey)
    \/ \E k \in DOMAIN allPackages(owner, ls) : hasSelect(d, allPackages(owner, ls)[k].name)

\* updatePackagesTabDirty: some select found by its id differs from the
\* version of the package state
isDirty(d, owner, ls) ==
    \/ /\ ~coreState(owner, ls).isNull
       /\ hasSelect(d, CoreKey)
       /\ selectValue(d[CoreKey]) # coreState(owner, ls).version
    \/ \E k \in DOMAIN allPackages(owner, ls) :
          LET p == allPackages(owner, ls)[k]
          IN  hasSelect(d, p.name) /\ selectValue(d[p.name]) # p.version

\* renderCoreRow and renderPackageRow: the row of a package, with a select
\* when its release list is not empty
rowOf(version, rel) ==
    [current |-> version,
     options |-> IF rel.pins = <<>> THEN <<>> ELSE <<version>> \o rel.pins,
     index |-> IF rel.pins = <<>> THEN 0 ELSE 1]

\* renderTable: the rows built from the package state
rowsOf(owner, ls, hp) ==
    LET core == coreState(owner, ls)
        pkgs == allPackages(owner, ls)
        names == {pkgs[k].name : k \in DOMAIN pkgs}
    IN  [key \in (IF core.isNull THEN {} ELSE {CoreKey}) \cup names |->
            IF key = CoreKey THEN rowOf(core.version, hp[owner][CoreKey])
            ELSE rowOf(ls[owner].manifest[key], hp[owner][key])]

\* renderTable: the button Set all to latest is shown with the section headers
showsLatest(owner, ls) ==
    /\ drupalPackages(owner, ls) # <<>>
    /\ ~coreState(owner, ls).isNull \/ composerPackages(owner, ls) # <<>>

\* buildVersionMap on the selections applyVersions collects
buildVersionMap(d, owner, ls) ==
    LET core == coreState(owner, ls)
        pkgs == allPackages(owner, ls) \o core.packages
        selectedOf(p) ==
            IF p.name \in UiCoreNames
            THEN (IF hasSelect(d, CoreKey) THEN selectValue(d[CoreKey]) ELSE core.version)
            ELSE (IF hasSelect(d, p.name) THEN selectValue(d[p.name]) ELSE p.version)
        chosen == {k \in DOMAIN pkgs : selectedOf(pkgs[k]) # "" /\ selectedOf(pkgs[k]) # pkgs[k].version}
    IN  [n \in {pkgs[k].name : k \in chosen} |->
            selectedOf(CHOOSE p \in Range(pkgs) : p.name = n)]

\* the page after its script ran: nothing is loaded, the buttons Apply and
\* Revert are disabled
InitUI ==
    /\ pc = "page"
    /\ impl = "app"
    /\ VersionIdle
    /\ FetchIdle
    /\ PackagesIdle
    /\ ManifestIdle
    /\ ClientIdle
    /\ LoadIdle
    /\ ServerIdle
    /\ CliIdle
    /\ editing = FALSE
    /\ dropDisabled = FALSE
    /\ textarea = NoText
    /\ reading = {}
    /\ updating = {}
    /\ stateOwner = 0
    /\ heap = [l \in LoadIds |-> EmptyMap]
    /\ dom = EmptyMap
    /\ latestButton = FALSE
    /\ tabDirty = FALSE
    /\ applyDisabled = TRUE
    /\ revertDisabled = TRUE
    /\ loads = [l \in LoadIds |-> NoLoad]
    /\ lastEvent = "other"

\* the variables no event of the page changes
pageFrame == <<pc, versionVars, fetchVars, packageVars, manifestVars, clientVars, loadVars,
               serverVars, cliVars>>

\* the calls of loadComposer that wait for an answer
InFlight == {l \in LoadIds : loads[l].phase \in {"parsing", "fetching"}}

\* the calls of loadComposer made and about to be made
Reserved ==
    Cardinality({l \in LoadIds : loads[l].phase # "none"})
        + Cardinality(reading) + Cardinality(updating)

\* the next call of loadComposer
freshLoad == Cardinality({l \in LoadIds : loads[l].phase # "none"}) + 1

\* loadComposer up to the request to parse: nothing happens on an empty
\* textarea
loadComposerStarts(text) ==
    IF text = NoText THEN loads' = loads
    ELSE loads' = [loads EXCEPT ![freshLoad] =
                     [phase |-> "parsing", manifest |-> text, pending |-> {},
                      rejected |-> FALSE, during |-> InFlight]]

\* the end of updatePackagesTabDirty
setDirty(dirty) ==
    /\ tabDirty' = dirty
    /\ applyDisabled' = ~dirty
    /\ revertDisabled' = ~dirty

\* renderTable: the indicator is updated from the selects the table still
\* has, then the rows are built from the package state
renderTable(owner, hp) ==
    /\ setDirty(isDirty(dom, owner, loads))
    /\ dom' = rowsOf(owner, loads, hp)
    /\ latestButton' = showsLatest(owner, loads)

\* startEditing
startEditing ==
    /\ ~editing
    /\ editing' = TRUE
    /\ dropDisabled' = TRUE
    /\ stateOwner' = 0
    /\ renderTable(0, heap)
    /\ lastEvent' = "other"
    /\ UNCHANGED <<pageFrame, textarea, reading, updating, heap, loads>>

\* stopEditing
stopEditing ==
    /\ editing
    /\ textarea # NoText => Reserved < MaxLoads
    /\ editing' = FALSE
    /\ dropDisabled' = FALSE
    /\ loadComposerStarts(textarea)
    /\ lastEvent' = "other"
    /\ UNCHANGED <<pageFrame, textarea, reading, updating, stateOwner, heap, dom, latestButton,
                   tabDirty, applyDisabled, revertDisabled>>

\* the user types in the editable textarea
editText ==
    /\ editing
    /\ \E text \in UiFiles \cup {NoText} : text # textarea /\ textarea' = text
    /\ lastEvent' = "other"
    /\ UNCHANGED <<pageFrame, editing, dropDisabled, reading, updating, stateOwner, heap, dom,
                   latestButton, tabDirty, applyDisabled, revertDisabled, loads>>

\* handleFile: edit mode is left and the file is read
handleFile(file) ==
    /\ Reserved < MaxLoads
    /\ file \notin reading
    /\ editing' = FALSE
    /\ reading' = reading \cup {file}
    /\ lastEvent' = "other"
    /\ UNCHANGED <<pageFrame, dropDisabled, textarea, updating, stateOwner, heap, dom,
                   latestButton, tabDirty, applyDisabled, revertDisabled, loads>>

\* the change event of the file input
fileSelected == \E file \in UiFiles : handleFile(file)

\* the drop event of the drop zone
fileDropped == ~editing /\ \E file \in UiFiles : handleFile(file)

\* reader.onload
readerOnload ==
    \E file \in reading :
       /\ reading' = reading \ {file}
       /\ textarea' = file
       /\ loadComposerStarts(file)
       /\ lastEvent' = "other"
       /\ UNCHANGED <<pageFrame, editing, dropDisabled, updating, stateOwner, heap, dom,
                      latestButton, tabDirty, applyDisabled, revertDisabled>>

\* loadComposer after await parseComposer: on an error the load ends;
\* otherwise the package state is replaced by new objects, the table is
\* rendered and the releases are requested. Without a package the load goes
\* on to its end: the table is rendered once more
parseAnswered ==
    \E l \in LoadIds, ok \in BOOLEAN :
       /\ loads[l].phase = "parsing"
       /\ IF ~ok
          THEN /\ loads' = [loads EXCEPT ![l].phase = "failed"]
               /\ UNCHANGED <<stateOwner, heap, dom, latestButton, tabDirty, applyDisabled,
                              revertDisabled>>
          ELSE LET keys == objectKeys(loads[l].manifest)
               IN  /\ stateOwner' = l
                   /\ heap' = [heap EXCEPT ![l] = [k \in keys |-> NoReleases]]
                   /\ loads' = [loads EXCEPT ![l].phase = IF keys = {} THEN "done" ELSE "fetching",
                                             ![l].pending = keys]
                   /\ dom' = rowsOf(l, loads, heap')
                   /\ latestButton' = showsLatest(l, loads)
                   /\ setDirty(IF keys = {} THEN isDirty(dom', l, loads)
                               ELSE isDirty(dom, l, loads))
       /\ lastEvent' = "other"
       /\ UNCHANGED <<pageFrame, editing, dropDisabled, textarea, reading, updating>>

\* one of the parallel fetches of loadComposer after await fetchReleases.
\* The core fetch writes the releases to the global coreState, which throws
\* when coreState is null by then: the load is rejected and never renders.
\* A package fetch writes to the object the load made. When the last fetch
\* of a load that was not rejected has written, the table is rendered
fetchAnswered ==
    \E l \in LoadIds, key \in Range(UiNames) \cup {CoreKey}, pins \in UiAnswers :
       /\ loads[l].phase = "fetching"
       /\ key \in loads[l].pending
       /\ LET throws == key = CoreKey /\ coreState(stateOwner, loads).isNull
              last == loads[l].pending = {key}
              rejects == loads[l].rejected \/ throws
          IN  /\ heap' = IF throws THEN heap
                         ELSE IF key = CoreKey
                         THEN [heap EXCEPT ![stateOwner][CoreKey] = [from |-> l, pins |-> pins]]
                         ELSE [heap EXCEPT ![l][key] = [from |-> l, pins |-> pins]]
              /\ loads' = [loads EXCEPT ![l].pending = @ \ {key},
                                        ![l].rejected = rejects,
                                        ![l].phase = IF last THEN "done" ELSE "fetching"]
              /\ IF last /\ ~rejects
                 THEN renderTable(stateOwner, heap')
                 ELSE UNCHANGED <<dom, latestButton, tabDirty, applyDisabled, revertDisabled>>
       /\ lastEvent' = "other"
       /\ UNCHANGED <<pageFrame, editing, dropDisabled, textarea, reading, updating, stateOwner>>

\* the user picks another option of a select: its change listener runs
changeDropdown ==
    \E key \in DOMAIN dom :
       \E i \in DOMAIN dom[key].options :
          /\ i # dom[key].index
          /\ dom' = [dom EXCEPT ![key].index = i]
          /\ setDirty(isDirty(dom', stateOwner, loads))
          /\ lastEvent' = "change"
          /\ UNCHANGED <<pageFrame, editing, dropDisabled, textarea, reading, updating,
                         stateOwner, heap, latestButton, loads>>

\* revertVersions, on a click of the button Revert
revertVersions ==
    /\ ~revertDisabled
    /\ LET core == coreState(stateOwner, loads)
           pkgs == allPackages(stateOwner, loads)
           versionOf == [key \in {CoreKey} \cup {pkgs[k].name : k \in DOMAIN pkgs} |->
                           IF key = CoreKey THEN core.version
                           ELSE (CHOOSE p \in Range(pkgs) : p.name = key).version]
           reset(key) == (key # CoreKey \/ ~core.isNull) /\ key \in DOMAIN versionOf
                           /\ hasSelect(dom, key)
       IN  dom' = [key \in DOMAIN dom |->
                     IF reset(key)
                     THEN [dom[key] EXCEPT !.index = indexOfValue(dom[key].options, versionOf[key])]
                     ELSE dom[key]]
    /\ setDirty(isDirty(dom', stateOwner, loads))
    /\ lastEvent' = "revert"
    /\ UNCHANGED <<pageFrame, editing, dropDisabled, textarea, reading, updating, stateOwner,
                   heap, latestButton, loads>>

\* setAllToLatest(drupalPackages), on a click of the button Set all to latest
setAllToLatest ==
    /\ latestButton
    /\ LET pkgs == drupalPackages(stateOwner, loads)
           names == {pkgs[k].name : k \in DOMAIN pkgs}
       IN  dom' = [key \in DOMAIN dom |->
                     IF key \in names /\ Len(dom[key].options) > 1
                     THEN [dom[key] EXCEPT !.index = indexOfValue(dom[key].options, dom[key].options[2])]
                     ELSE dom[key]]
    /\ setDirty(isDirty(dom', stateOwner, loads))
    /\ lastEvent' = "latest"
    /\ UNCHANGED <<pageFrame, editing, dropDisabled, textarea, reading, updating, stateOwner,
                   heap, latestButton, loads>>

\* applyVersions up to the request to update, on a click of the button Apply
applyVersionsClicked ==
    /\ ~applyDisabled
    /\ LET vs == buildVersionMap(dom, stateOwner, loads)
           request == [manifest |-> textarea, versions |-> vs]
       IN  IF textarea = NoText \/ vs = EmptyMap THEN UNCHANGED updating
           ELSE /\ Reserved < MaxLoads
                /\ request \notin updating
                /\ updating' = updating \cup {request}
    /\ lastEvent' = "other"
    /\ UNCHANGED <<pageFrame, editing, dropDisabled, textarea, reading, stateOwner, heap, dom,
                   latestButton, tabDirty, applyDisabled, revertDisabled, loads>>

\* applyVersions after await updateComposer: the textarea takes the updated
\* manifest and the table is loaded again; an error is shown as a status
updateAnswered ==
    \E request \in updating, ok \in BOOLEAN :
       /\ updating' = updating \ {request}
       /\ IF ok
          THEN /\ textarea' = updateComposer(request.manifest, request.versions)
               /\ loadComposerStarts(textarea')
          ELSE UNCHANGED <<textarea, loads>>
       /\ lastEvent' = "other"
       /\ UNCHANGED <<pageFrame, editing, dropDisabled, reading, stateOwner, heap, dom,
                      latestButton, tabDirty, applyDisabled, revertDisabled>>

NextUI ==
    \/ startEditing
    \/ stopEditing
    \/ editText
    \/ fileSelected
    \/ fileDropped
    \/ readerOnload
    \/ parseAnswered
    \/ fetchAnswered
    \/ changeDropdown
    \/ revertVersions
    \/ setAllToLatest
    \/ applyVersionsClicked
    \/ updateAnswered

SpecUI == InitUI /\ [][NextUI]_vars

\* a dropdown of the table shows another value than the constraint its row
\* gives as the current one
SomeDropdownDiffers ==
    \E key \in DOMAIN dom : dom[key].options # <<>> /\ selectValue(dom[key]) # dom[key].current

\* the indicator says exactly whether a dropdown differs
IndicatorExact ==
    /\ tabDirty <=> SomeDropdownDiffers
    /\ applyDisabled <=> ~SomeDropdownDiffers
    /\ revertDisabled <=> ~SomeDropdownDiffers

\* C23: after a dropdown change, Revert or Set all to latest the buttons
\* Apply and Revert are enabled and the Packages tab shows the marker (*)
\* exactly when some dropdown's selected value differs from the current
\* constraint of its row.
C23_IndicatorExact ==
    lastEvent \in {"change", "revert", "latest"} => IndicatorExact

\* Set all to latest has made the loaded table dirty
C23_Witness ==
    /\ lastEvent = "latest"
    /\ InFlight = {}
    /\ tabDirty
    /\ ~applyDisabled

\* Revert has made the loaded table clean
C23_WitnessReverted ==
    /\ lastEvent = "revert"
    /\ InFlight = {}
    /\ ~tabDirty
    /\ \E key \in DOMAIN dom : dom[key].options # <<>>

\* C25: the drop zone is marked disabled if and only if the page is in edit
\* mode, whatever Edit clicks, file selections and drops came before.
C25_DropZoneDisabledIffEditing == dropDisabled <=> editing

\* C26: in edit mode the package state is empty, the table shows no package
\* and the button Apply is disabled, also when the answers of a load that
\* was started before arrive in edit mode.
C26_EditModeKeepsEmpty ==
    editing => (stateOwner = 0 /\ dom = EmptyMap /\ applyDisabled)

\* the last call of loadComposer that was made
lastLoad == Cardinality({l \in LoadIds : loads[l].phase # "none"})

\* C27: when a load starts while an earlier one waits for an answer, then
\* once both have finished the package state is the one the later load built
\* and every release list in it was written by the later load.
C27_LaterLoadWins ==
    (/\ InFlight = {}
     /\ lastLoad > 1
     /\ loads[lastLoad].phase = "done"
     /\ loads[lastLoad].during # {}
     /\ stateOwner # 0) =>
        /\ stateOwner = lastLoad
        /\ \A key \in DOMAIN heap[lastLoad] : heap[lastLoad][key].from \in {0, lastLoad}
====
